---- MODULE Spec2Model ----
(***************************************************************************)
(* A model of the tryparse library: the multi-stage FlexibleParser, the    *)
(* candidate scoring and ranking, the public entry points of lib.rs and    *)
(* the two-mode struct coercion of the custom deserializer.                *)
(*                                                                         *)
(* Text is a sequence of one-character strings over the alphabet below.    *)
(* JSON values are records [t, s, items] of one shape:                     *)
(*   t = "num"  s = the digits            items = << >>                    *)
(*   t = "flt"  s = the digits of n.0     items = << >>                    *)
(*   t = "str"  s = the decoded chars     items = << >>                    *)
(*   t = "arr"  s = << >>                 items = the elements             *)
(*   t = "obj"  s = << >>                 items = members, sorted by key   *)
(*   t = "kv"   s = the key               items = << the member's value >> *)
(***************************************************************************)
EXTENDS Integers, Sequences, FiniteSets, TLC

\* ------------------------------------------------------------------------
\* Characters
\* ------------------------------------------------------------------------
LB == "["
RB == "]"
LC == "{"
RC == "}"
QT == "\""
CL == ":"
CM == ","
D1 == "1"
UA == "A"
LA == "a"
LN == "n"
SP == " "
NL == "\n"
BS == "\\"
\* U+200B, the zero-width space
ZW == "zw"
\* U+20AC, the euro sign
EU == "eu"

\* Code-point order of the characters used, for the ordering of object keys.
CharOrder == <<NL, SP, QT, CM, D1, CL, UA, LB, BS, RB, LA, LN, LC, RC, ZW, EU>>

CharRank(c) == CHOOSE i \in 1..Len(CharOrder) : CharOrder[i] = c

\* char::is_whitespace, char::is_alphabetic, char::is_numeric on the alphabet
IsWhitespace(c) == c \in {SP, NL}
IsAlphabetic(c) == c \in {UA, LA, LN}
IsNumeric(c) == c = D1
IsAlphanumeric(c) == IsAlphabetic(c) \/ IsNumeric(c)

\* char::is_uppercase, char::to_ascii_lowercase, char::to_ascii_uppercase
IsUppercase(c) == c = UA
ToLowercase(c) == IF c = UA THEN LA ELSE c
ToUppercase(c) == IF c = LA THEN UA ELSE c

\* ------------------------------------------------------------------------
\* Text helpers
\* ------------------------------------------------------------------------
Min(a, b) == IF a < b THEN a ELSE b
Max(a, b) == IF a > b THEN a ELSE b

\* chars[from..to) with 0-based bounds, as a Rust slice
Slice(s, from, to) == SubSeq(s, from + 1, to)

RECURSIVE TrimStart(_)
TrimStart(s) ==
  IF Len(s) > 0 /\ IsWhitespace(s[1]) THEN TrimStart(Tail(s)) ELSE s

RECURSIVE TrimEnd(_)
TrimEnd(s) ==
  IF Len(s) > 0 /\ IsWhitespace(s[Len(s)])
  THEN TrimEnd(SubSeq(s, 1, Len(s) - 1)) ELSE s

\* str::trim
Trim(s) == TrimEnd(TrimStart(s))

StartsWith(s, p) == Len(s) >= Len(p) /\ SubSeq(s, 1, Len(p)) = p
EndsWith(s, p) == Len(s) >= Len(p) /\ SubSeq(s, Len(s) - Len(p) + 1, Len(s)) = p
Contains(s, c) == \E i \in 1..Len(s) : s[i] = c

Repeat(c, n) == [i \in 1..n |-> c]

\* A loop over chars[lo..hi] (1-based, inclusive) threading the loop's
\* variables st through Step(st, chars, i); st.done ends the loop early.
RECURSIVE Scan(_, _, _, _, _)
Scan(Step(_, _, _), chars, lo, hi, st) ==
  IF lo > hi \/ st.done THEN st
  ELSE IF lo = hi THEN Step(st, chars, lo)
  ELSE LET mid == (lo + hi) \div 2 IN
    Scan(Step, chars, mid + 1, hi, Scan(Step, chars, lo, mid, st))

\* A loop  while !st.done { st = Step(st) }
RECURSIVE IterateN(_, _, _)
IterateN(Step(_), n, st) ==
  IF n = 0 \/ st.done THEN st
  ELSE IF n = 1 THEN Step(st)
  ELSE IterateN(Step, n - n \div 2, IterateN(Step, n \div 2, st))

RECURSIVE Iterate(_, _, _)
Iterate(Step(_), st, n) ==
  IF st.done THEN st ELSE Iterate(Step, IterateN(Step, n, st), 2 * n)

RECURSIVE LexLess(_, _)
LexLess(a, b) ==
  IF Len(b) = 0 THEN FALSE
  ELSE IF Len(a) = 0 THEN TRUE
  ELSE IF a[1] = b[1] THEN LexLess(Tail(a), Tail(b))
  ELSE CharRank(a[1]) < CharRank(b[1])

\* ------------------------------------------------------------------------
\* serde_json::Value
\* ------------------------------------------------------------------------
JNull == [t |-> "null", s |-> << >>, items |-> << >>]
JNum(d) == [t |-> "num", s |-> d, items |-> << >>]
JStr(c) == [t |-> "str", s |-> c, items |-> << >>]
JArr(xs) == [t |-> "arr", s |-> << >>, items |-> xs]
JObj(ms) == [t |-> "obj", s |-> << >>, items |-> ms]
JKv(k, v) == [t |-> "kv", s |-> k, items |-> <<v>>]

\* Map::insert of serde_json's sorted map: a later duplicate key replaces the
\* earlier member, members stay sorted by key.
RECURSIVE MapInsert(_, _, _)
MapInsert(ms, k, v) ==
  IF Len(ms) = 0 THEN <<JKv(k, v)>>
  ELSE IF ms[1].s = k THEN <<JKv(k, v)>> \o Tail(ms)
  ELSE IF LexLess(k, ms[1].s) THEN <<JKv(k, v)>> \o ms
  ELSE <<ms[1]>> \o MapInsert(Tail(ms), k, v)

\* Map::get
MapHas(ms, k) == \E i \in 1..Len(ms) : ms[i].s = k
MapGet(ms, k) == ms[CHOOSE i \in 1..Len(ms) : ms[i].s = k].items[1]

\* ------------------------------------------------------------------------
\* serde_json::from_str, the reference strict JSON parser (an external
\* crate), as a pushdown automaton over the characters.  A result is
\* [ok, v].  The automaton's state is
\*   phase   what is expected next: "value", "key", "colon", "after" (a
\*           comma or a closer), "end" (nothing but whitespace), or the
\*           token being read: "str", "esc", "num"
\*   stack   the open containers, innermost last: [kind, items, key]
\*   fresh   the innermost container was just opened
\*   acc     the characters of the token read so far
\*   is_key  the string being read is an object key
\*   v       the top-level value once complete
\* ------------------------------------------------------------------------
PFail == [ok |-> FALSE, v |-> JNull]
POk(v) == [ok |-> TRUE, v |-> v]

RECURSIVE SkipWs(_, _)
SkipWs(s, i) ==
  IF i <= Len(s) /\ IsWhitespace(s[i]) THEN SkipWs(s, i + 1) ELSE i

RECURSIVE ParseDigits(_, _)
ParseDigits(s, j) ==
  IF j <= Len(s) /\ IsNumeric(s[j]) THEN ParseDigits(s, j + 1) ELSE j

JsonStart ==
  [done |-> FALSE, phase |-> "value", stack |-> << >>, fresh |-> FALSE,
   acc |-> << >>, is_key |-> FALSE, v |-> JNull]

JsonReject(st) == [st EXCEPT !.done = TRUE, !.phase = "fail"]

JsonPush(st, kind) ==
  [st EXCEPT !.stack = Append(@, [kind |-> kind, items |-> << >>, key |-> << >>]),
             !.phase = IF kind = "arr" THEN "value" ELSE "key",
             !.fresh = TRUE]

\* A complete value goes into the innermost open container, or is the result
JsonComplete(st, v) ==
  LET n == Len(st.stack) IN
  CASE n = 0 -> [st EXCEPT !.v = v, !.phase = "end", !.fresh = FALSE]
    [] n > 0 /\ st.stack[n].kind = "arr" ->
         [st EXCEPT !.stack[n].items = Append(@, v), !.phase = "after", !.fresh = FALSE]
    [] OTHER ->
         [st EXCEPT !.stack[n].items = MapInsert(@, st.stack[n].key, v),
                    !.phase = "after", !.fresh = FALSE]

JsonClose(st, kind) ==
  LET n == Len(st.stack) IN
  IF n = 0 \/ st.stack[n].kind # kind THEN JsonReject(st)
  ELSE JsonComplete([st EXCEPT !.stack = SubSeq(@, 1, n - 1)],
                    IF kind = "arr" THEN JArr(st.stack[n].items) ELSE JObj(st.stack[n].items))

JsonDispatch(st, c) ==
  CASE st.phase = "value" ->
         (CASE IsWhitespace(c) -> st
            [] c = QT -> [st EXCEPT !.phase = "str", !.acc = << >>, !.is_key = FALSE]
            [] IsNumeric(c) -> [st EXCEPT !.phase = "num", !.acc = <<c>>]
            [] c = LB -> JsonPush(st, "arr")
            [] c = LC -> JsonPush(st, "obj")
            [] c = RB /\ st.fresh -> JsonClose(st, "arr")
            [] OTHER -> JsonReject(st))
    [] st.phase = "key" ->
         (CASE IsWhitespace(c) -> st
            [] c = QT -> [st EXCEPT !.phase = "str", !.acc = << >>, !.is_key = TRUE]
            [] c = RC /\ st.fresh -> JsonClose(st, "obj")
            [] OTHER -> JsonReject(st))
    [] st.phase = "colon" ->
         (CASE IsWhitespace(c) -> st
            [] c = CL -> [st EXCEPT !.phase = "value", !.fresh = FALSE]
            [] OTHER -> JsonReject(st))
    [] st.phase = "str" ->
         (CASE c = QT /\ st.is_key ->
                 [st EXCEPT !.stack[Len(st.stack)].key = st.acc, !.phase = "colon"]
            [] c = QT /\ ~st.is_key -> JsonComplete(st, JStr(st.acc))
            [] c = BS -> [st EXCEPT !.phase = "esc"]
            [] c = NL -> JsonReject(st)
            [] OTHER -> [st EXCEPT !.acc = Append(@, c)])
    [] st.phase = "esc" ->
         (CASE c \in {QT, BS} -> [st EXCEPT !.phase = "str", !.acc = Append(@, c)]
            [] c = LN -> [st EXCEPT !.phase = "str", !.acc = Append(@, NL)]
            [] OTHER -> JsonReject(st))
    [] st.phase = "after" ->
         (CASE IsWhitespace(c) -> st
            [] c = CM -> [st EXCEPT !.phase = IF st.stack[Len(st.stack)].kind = "arr"
                                              THEN "value" ELSE "key"]
            [] c = RB -> JsonClose(st, "arr")
            [] c = RC -> JsonClose(st, "obj")
            [] OTHER -> JsonReject(st))
    [] st.phase = "end" -> IF IsWhitespace(c) THEN st ELSE JsonReject(st)
    [] OTHER -> JsonReject(st)

\* A number ends at the first character that is not a digit
JsonStep(st, chars, i) ==
  IF st.phase = "num"
  THEN IF IsNumeric(chars[i]) THEN [st EXCEPT !.acc = Append(@, chars[i])]
       ELSE JsonDispatch(JsonComplete(st, JNum(st.acc)), chars[i])
  ELSE JsonDispatch(st, chars[i])

JsonFinish(st) ==
  CASE st.phase = "num" /\ Len(st.stack) = 0 -> POk(JNum(st.acc))
    [] st.phase = "end" -> POk(st.v)
    [] OTHER -> PFail

from_str(s) == JsonFinish(Scan(JsonStep, s, 1, Len(s), JsonStart))

\* ------------------------------------------------------------------------
\* serde_json::to_string, the compact serializer
\* ------------------------------------------------------------------------
EscapeChar(c) ==
  CASE c = QT -> <<BS, QT>>
    [] c = BS -> <<BS, BS>>
    [] c = NL -> <<BS, LN>>
    [] OTHER -> <<c>>

RECURSIVE EscapeString(_)
EscapeString(c) ==
  IF Len(c) = 0 THEN << >> ELSE EscapeChar(c[1]) \o EscapeString(Tail(c))

\* The serializer's state is [work, out]: the values and the punctuation
\* still to be written, first to last, and the text written so far.
WriteText(text) == [lit |-> TRUE, text |-> text, v |-> JNull]
WriteValue(v) == [lit |-> FALSE, text |-> << >>, v |-> v]

CommaSeparated(xs) ==
  [i \in 1..(2 * Len(xs) - 1) |->
     IF i % 2 = 1 THEN WriteValue(xs[(i + 1) \div 2]) ELSE WriteText(<<CM>>)]

WriteStep(st) ==
  IF Len(st.work) = 0 THEN [st EXCEPT !.done = TRUE]
  ELSE LET item == Head(st.work)
           rest == Tail(st.work)
           v == item.v IN
    CASE item.lit -> [st EXCEPT !.out = @ \o item.text, !.work = rest]
      [] v.t = "num" -> [st EXCEPT !.out = @ \o v.s, !.work = rest]
      [] v.t = "flt" -> [st EXCEPT !.out = @ \o v.s \o <<".", "0">>, !.work = rest]
      [] v.t = "str" ->
           [st EXCEPT !.out = @ \o <<QT>> \o EscapeString(v.s) \o <<QT>>, !.work = rest]
      [] v.t = "arr" ->
           [st EXCEPT !.work = <<WriteText(<<LB>>)>> \o CommaSeparated(v.items)
                                \o <<WriteText(<<RB>>)>> \o rest]
      [] v.t = "obj" ->
           [st EXCEPT !.work = <<WriteText(<<LC>>)>> \o CommaSeparated(v.items)
                                \o <<WriteText(<<RC>>)>> \o rest]
      [] v.t = "kv" ->
           [st EXCEPT !.out = @ \o <<QT>> \o EscapeString(v.s) \o <<QT, CL>>,
                      !.work = <<WriteValue(v.items[1])>> \o rest]
      [] OTHER -> [st EXCEPT !.out = @ \o <<LN, "u", "l", "l">>, !.work = rest]

to_string(v) ==
  Iterate(WriteStep, [done |-> FALSE, work |-> <<WriteValue(v)>>, out |-> << >>], 1).out

\* ------------------------------------------------------------------------
\* Option<String>
\* ------------------------------------------------------------------------
None == [some |-> FALSE, v |-> << >>]
Some(x) == [some |-> TRUE, v |-> x]

\* ------------------------------------------------------------------------
\* GarbageCleaner: the pre-cleaning steps
\* ------------------------------------------------------------------------
MAX_NESTING_DEPTH == 50

\* The depth count of extract_from_deep_nesting; the loop's variables are
\* [in_string, escape_next, current_brace_depth, max_brace_depth,
\*  current_bracket_depth, max_bracket_depth].
NestingStep(st, chars, i) ==
  LET ch == chars[i] IN
  CASE st.escape_next -> [st EXCEPT !.escape_next = FALSE]
    [] ch = BS /\ st.in_string -> [st EXCEPT !.escape_next = TRUE]
    [] ch = QT -> [st EXCEPT !.in_string = ~@]
    [] ch = LC /\ ~st.in_string ->
         [st EXCEPT !.current_brace_depth = @ + 1,
                    !.max_brace_depth = Max(@, st.current_brace_depth + 1)]
    [] ch = RC /\ ~st.in_string -> [st EXCEPT !.current_brace_depth = Max(@ - 1, 0)]
    [] ch = LB /\ ~st.in_string ->
         [st EXCEPT !.current_bracket_depth = @ + 1,
                    !.max_bracket_depth = Max(@, st.current_bracket_depth + 1)]
    [] ch = RB /\ ~st.in_string -> [st EXCEPT !.current_bracket_depth = Max(@ - 1, 0)]
    [] OTHER -> st

NestingDepths(trimmed) ==
  Scan(NestingStep, trimmed, 1, Len(trimmed),
       [done |-> FALSE, in_string |-> FALSE, escape_next |-> FALSE,
        current_brace_depth |-> 0, max_brace_depth |-> 0,
        current_bracket_depth |-> 0, max_bracket_depth |-> 0])

\* 0-based indices below, as in the source.
RECURSIVE BackOverWhitespace(_, _)
BackOverWhitespace(chars, start) ==
  IF start > 0 /\ IsWhitespace(chars[start + 1])
  THEN BackOverWhitespace(chars, start - 1) ELSE start

RECURSIVE ForwardOverWhitespace(_, _)
ForwardOverWhitespace(chars, end) ==
  IF end < Len(chars) /\ IsWhitespace(chars[end + 1])
  THEN ForwardOverWhitespace(chars, end + 1) ELSE end

\* The loop that skips the opening delimiters; k is the 1-based position
ContentStartStep(st, chars, k) ==
  LET i == k - 1 IN
  CASE chars[k] \in {LC, LB} -> [st EXCEPT !.start = i + 1]
    [] IsWhitespace(chars[k]) -> st
    [] OTHER -> [done |-> TRUE,
                 start |-> IF i > 0 THEN BackOverWhitespace(chars, i - 1) ELSE st.start]

\* The loop that skips the closing delimiters, from the end backwards
ContentEndStep(st, chars, k) ==
  LET i == Len(chars) - k IN
  CASE chars[i + 1] \in {RC, RB} -> [st EXCEPT !.end = i]
    [] IsWhitespace(chars[i + 1]) -> st
    [] OTHER -> [done |-> TRUE,
                 end |-> IF i + 1 < Len(chars)
                         THEN Min(ForwardOverWhitespace(chars, i + 1) + 1, Len(chars))
                         ELSE st.end]

LooksNested(t) ==
  \/ StartsWith(t, <<LC>>) /\ EndsWith(t, <<RC>>)
  \/ StartsWith(t, <<LB>>) /\ EndsWith(t, <<RB>>)

ExtractBetween(chars, start, end) ==
  IF start < end /\ end <= Len(chars) /\ LooksNested(Trim(Slice(chars, start, end)))
  THEN Some(Slice(chars, start, end))
  ELSE None

\* A variant of TooDeep that already extracts at the limit itself
TooDeepAtLimit(d, max_depth) ==
  d.max_brace_depth >= max_depth \/ d.max_bracket_depth >= max_depth

TooDeep(d, max_depth) == d.max_brace_depth > max_depth \/ d.max_bracket_depth > max_depth

extract_from_deep_nesting(text, max_depth) ==
  LET trimmed == Trim(text) IN
  IF ~StartsWith(trimmed, <<LC>>) /\ ~StartsWith(trimmed, <<LB>>) THEN None
  ELSE IF ~TooDeep(NestingDepths(trimmed), max_depth) THEN None
  ELSE ExtractBetween(trimmed,
         Scan(ContentStartStep, trimmed, 1, Len(trimmed), [done |-> FALSE, start |-> 0]).start,
         Scan(ContentEndStep, trimmed, 1, Len(trimmed),
              [done |-> FALSE, end |-> Len(trimmed)]).end)

\* Of the characters the source lists only U+200B is in the alphabet.
IsVisible(c) == c # ZW
remove_invisible_chars(s) == SelectSeq(s, IsVisible)

\* The number of backslashes immediately before 0-based index i
RECURSIVE PrecedingBackslashes(_, _)
PrecedingBackslashes(chars, i) ==
  IF i > 0 /\ chars[i] = BS THEN 1 + PrecedingBackslashes(chars, i - 1) ELSE 0

\* The loop of fix_unnecessary_backslashes; skip is set where the source
\* advances i by 2.
BackslashStep(st, chars, k) ==
  LET ch == chars[k] IN
  CASE st.skip -> [st EXCEPT !.skip = FALSE]
    [] ch = QT /\ ~st.string_escape_next ->
         [st EXCEPT !.in_string = ~@, !.result = Append(@, ch), !.string_escape_next = FALSE]
    [] st.in_string ->
         [st EXCEPT !.result = Append(@, ch),
                    !.string_escape_next = IF @ THEN FALSE ELSE ch = BS]
    [] ch = BS /\ k < Len(chars) /\ PrecedingBackslashes(chars, k - 1) % 2 = 0
       /\ chars[k + 1] = QT ->
         [st EXCEPT !.result = Append(@, QT), !.skip = TRUE]
    [] OTHER -> [st EXCEPT !.result = Append(@, ch)]

fix_unnecessary_backslashes(text) ==
  Scan(BackslashStep, text, 1, Len(text),
       [done |-> FALSE, skip |-> FALSE, result |-> << >>, in_string |-> FALSE,
        string_escape_next |-> FALSE]).result

\* DISABLED in the source: returns its input
normalize_field_names(text) == text

\* Step 0 to step 2 of parse_multi_stage
Preprocess(text) ==
  LET deep == extract_from_deep_nesting(text, MAX_NESTING_DEPTH)
      input_after_nesting == IF deep.some THEN deep.v ELSE text
      step1 == remove_invisible_chars(input_after_nesting) IN
  fix_unnecessary_backslashes(step1)

\* ------------------------------------------------------------------------
\* FlexValue, Source, Transformation, JsonFix
\* ------------------------------------------------------------------------
SrcDirect == [kind |-> "Direct", index |-> 0, fixes |-> << >>, pattern |-> ""]
SrcYaml == [kind |-> "Yaml", index |-> 0, fixes |-> << >>, pattern |-> ""]
SrcMarkdown == [kind |-> "Markdown", index |-> 0, fixes |-> << >>, pattern |-> ""]
SrcMultiJsonArray == [kind |-> "MultiJsonArray", index |-> 0, fixes |-> << >>, pattern |-> ""]
SrcMultiJson(i) == [kind |-> "MultiJson", index |-> i, fixes |-> << >>, pattern |-> ""]
SrcFixed(f) == [kind |-> "Fixed", index |-> 0, fixes |-> f, pattern |-> ""]
SrcHeuristic(p) == [kind |-> "Heuristic", index |-> 0, fixes |-> << >>, pattern |-> p]

\* confidence is kept as the exact fraction num/den (f32 in the source)
FlexValue_new(value, source) ==
  [value |-> value, source |-> source, transformations |-> << >>,
   confidence |-> <<1, 1>>, max_transformation_depth |-> 0]

from_fixed_json(value, fixes) ==
  [value |-> value, source |-> SrcFixed(fixes), transformations |-> << >>,
   confidence |-> <<9, 10>>, max_transformation_depth |-> 0]

\* A variant of add_transformation that leaves the confidence as it is
add_transformation_only(fv, trans) ==
  [fv EXCEPT !.transformations = Append(@, trans)]

\* CONFIDENCE_PENALTY_FACTOR = 0.95
add_transformation(fv, trans) ==
  [fv EXCEPT !.transformations = Append(@, trans),
             !.confidence = <<@[1] * 19, @[2] * 20>>]

add_transformation_at_depth(fv, trans, depth) ==
  [fv EXCEPT !.transformations = Append(@, trans),
             !.confidence = <<@[1] * 19, @[2] * 20>>,
             !.max_transformation_depth = IF depth > @ THEN depth ELSE @]

JsonFix_penalty(f) ==
  CASE f \in {"TrailingCommas", "Comments", "SmartQuotes", "DoubleEscaped",
              "TemplateLiterals", "UnescapedNewlines", "JavaScriptFunctions"} -> 1
    [] f \in {"SingleQuotes", "UnquotedKeys", "HexNumbers", "TripleQuotedStrings"} -> 2
    [] f \in {"MissingCommas", "UnclosedBraces"} -> 3
    [] f = "UnquotedValues" -> 5
    [] f = "FieldNormalization" -> 4

\* A Transformation is the string of its variant name, followed by its
\* fields in braces where they matter: "ExtraKey{key: aa}"
RECURSIVE Str(_)
Str(chars) == IF Len(chars) = 0 THEN "" ELSE chars[1] \o Str(Tail(chars))

RECURSIVE KindEnd(_, _)
KindEnd(t, i) == IF i > Len(t) \/ SubSeq(t, i, i) = "{" THEN i - 1 ELSE KindEnd(t, i + 1)

\* The variant of a transformation
KindOf(t) == SubSeq(t, 1, KindEnd(t, 1))

FieldNameCaseChanged(from, to) ==
  "FieldNameCaseChanged{from: " \o Str(from) \o ", to: " \o Str(to) \o "}"
DefaultValueInserted(field) == "DefaultValueInserted{field: " \o Str(field) \o "}"
ExtraKey(key) == "ExtraKey{key: " \o Str(key) \o "}"
ImpliedKey(field) == "ImpliedKey{field: " \o Str(field) \o "}"
DefaultButHadUnparseableValue(field) ==
  "DefaultButHadUnparseableValue{field: " \o Str(field) \o "}"
FirstMatch(index, total) ==
  "FirstMatch{index: " \o ToString(index) \o ", total: " \o ToString(total) \o "}"
ArrayItemParseError(index) == "ArrayItemParseError{index: " \o ToString(index) \o "}"
UnionMatch(index, candidates) ==
  "UnionMatch{index: " \o ToString(index) \o ", candidates: ["
    \o candidates[1] \o ", " \o candidates[2] \o "]}"

ObjectFromMarkdown(score) == "ObjectFromMarkdown{score: " \o ToString(score) \o "}"
ConstraintChecked(passed, is_assert) ==
  "ConstraintChecked{passed: " \o (IF passed THEN "true" ELSE "false")
    \o ", is_assert: " \o (IF is_assert THEN "true" ELSE "false") \o "}"

\* The score of an ObjectFromMarkdown (an i32)
ScoreOf(t) ==
  CHOOSE n \in -2..100 : t = ObjectFromMarkdown(n)

\* The index of an ArrayItemParseError
IndexOf(t) ==
  CHOOSE i \in 0..Len(t) : t = ArrayItemParseError(i)

Transformation_penalty(t) ==
  CASE KindOf(t) = "StringToNumber" -> 2
    [] KindOf(t) = "FloatToInt" -> 3
    [] KindOf(t) = "SingleToArray" -> 5
    [] KindOf(t) = "FieldNameCaseChanged" -> 4
    [] KindOf(t) = "DefaultValueInserted" -> 50
    [] KindOf(t) = "ExtraKey" -> 10
    [] KindOf(t) = "ImpliedKey" -> 8
    [] KindOf(t) = "ObjectFromMarkdown" -> IF ScoreOf(t) >= 0 THEN ScoreOf(t) ELSE 0
    [] KindOf(t) = "ArrayItemParseError" -> 1 + IndexOf(t)
    [] KindOf(t) = "JsonToString" -> 2
    [] t = ConstraintChecked(FALSE, TRUE) -> 100
    [] t = ConstraintChecked(FALSE, FALSE) -> 10
    [] KindOf(t) = "ConstraintChecked" -> 0
    [] KindOf(t) = "DefaultButHadUnparseableValue" -> 2
    [] KindOf(t) = "SubstringMatch" -> 2
    [] KindOf(t) = "StrippedNonAlphaNumeric" -> 3
    [] KindOf(t) = "UnionMatch" -> 0
    [] KindOf(t) = "FirstMatch" -> 1
    [] OTHER -> 0

\* ------------------------------------------------------------------------
\* scoring.rs
\* ------------------------------------------------------------------------
DEPTH_SCORE_MULTIPLIER == 10

RECURSIVE SumOver(_, _)
SumOver(Op(_), xs) == IF Len(xs) = 0 THEN 0 ELSE Op(xs[1]) + SumOver(Op, Tail(xs))

RECURSIVE Pow(_, _)
Pow(b, e) == IF e = 0 THEN 1 ELSE b * Pow(b, e - 1)

source_base_score(source) ==
  CASE source.kind = "Direct" -> 0
    [] source.kind = "Markdown" -> 10
    [] source.kind = "Yaml" -> 15
    [] source.kind = "Fixed" -> 20 + SumOver(JsonFix_penalty, source.fixes)
    [] source.kind = "MultiJsonArray" -> 25
    [] source.kind = "MultiJson" -> 30
    [] source.kind = "Heuristic" -> 50

score_candidate_recursive(candidate, use_recursive) ==
  LET transformation_score == SumOver(Transformation_penalty, candidate.transformations)
      weighted == IF use_recursive /\ candidate.max_transformation_depth > 0
                  THEN transformation_score
                       * Pow(DEPTH_SCORE_MULTIPLIER, candidate.max_transformation_depth)
                  ELSE transformation_score
      c == candidate.confidence
      confidence_penalty == ((c[2] - c[1]) * 100) \div c[2] IN
  source_base_score(candidate.source) + weighted + confidence_penalty

score_candidate(candidate) == score_candidate_recursive(candidate, FALSE)

\* Vec::sort_by_cached_key is a stable sort: insertion after the last element
\* whose key is not larger.
RECURSIVE InsertByKey(_, _, _)
InsertByKey(Key(_), sorted, x) ==
  IF Len(sorted) = 0 THEN <<x>>
  ELSE IF Key(x) < Key(sorted[1]) THEN <<x>> \o sorted
  ELSE <<sorted[1]>> \o InsertByKey(Key, Tail(sorted), x)

RECURSIVE StableSortByKey(_, _)
StableSortByKey(Key(_), xs) ==
  IF Len(xs) = 0 THEN << >>
  ELSE InsertByKey(Key, StableSortByKey(Key, SubSeq(xs, 1, Len(xs) - 1)), xs[Len(xs)])

\* A variant of rank_candidates that puts a candidate before those of equal
\* score that were inserted earlier
RECURSIVE InsertBeforeEqual(_, _)
InsertBeforeEqual(sorted, x) ==
  IF Len(sorted) = 0 THEN <<x>>
  ELSE IF score_candidate(x) <= score_candidate(sorted[1]) THEN <<x>> \o sorted
  ELSE <<sorted[1]>> \o InsertBeforeEqual(Tail(sorted), x)

RECURSIVE rank_candidates_unstable(_)
rank_candidates_unstable(candidates) ==
  IF Len(candidates) = 0 THEN << >>
  ELSE InsertBeforeEqual(rank_candidates_unstable(SubSeq(candidates, 1, Len(candidates) - 1)),
                         candidates[Len(candidates)])

rank_candidates(candidates) == StableSortByKey(score_candidate, candidates)

\* ------------------------------------------------------------------------
\* JsonFixerStrategy.  A fix returns [some, v, fix]: the repaired text and
\* the JsonFix it stands for.
\* ------------------------------------------------------------------------
NoFix == [some |-> FALSE, v |-> << >>, fix |-> ""]
Fixed(text, fix) == [some |-> TRUE, v |-> text, fix |-> fix]

\* Some(result) when the repair loop set its modified flag
FixedIfModified(r, fix) == IF r.modified THEN Fixed(r.text, fix) ELSE NoFix

\* Some(result) when the repaired text differs from the input
FixedIfChanged(r, text, fix) == IF r # text THEN Fixed(r, fix) ELSE NoFix

\* str::len, the length in bytes: U+200B and U+20AC take three bytes in UTF-8
RECURSIVE ByteLen(_)
ByteLen(s) ==
  IF Len(s) = 0 THEN 0 ELSE (IF s[1] \in {ZW, EU} THEN 3 ELSE 1) + ByteLen(Tail(s))

\* is_char_boundary(b), and the number of characters before byte b
IsCharBoundary(s, b) == \E k \in 0..Len(s) : ByteLen(SubSeq(s, 1, k)) = b
CharsBefore(s, b) == CHOOSE k \in 0..Len(s) : ByteLen(SubSeq(s, 1, k)) = b

\* &s[start..end] with byte offsets: [ok, v], and ok is FALSE where the
\* source panics because an offset lies inside a character
str_slice(s, start, end) ==
  IF IsCharBoundary(s, start) /\ IsCharBoundary(s, end)
  THEN [ok |-> TRUE, v |-> SubSeq(s, CharsBefore(s, start) + 1, CharsBefore(s, end))]
  ELSE [ok |-> FALSE, v |-> << >>]

\* The end of the run of identifier characters that starts at j
RECURSIVE KeyEnd(_, _)
KeyEnd(chars, j) ==
  IF j <= Len(chars) /\ (IsAlphanumeric(chars[j]) \/ chars[j] = "_")
  THEN KeyEnd(chars, j + 1) ELSE j

RECURSIVE UnquotedKeys(_, _, _, _)
UnquotedKeys(chars, i, result, modified) ==
  IF i > Len(chars) THEN [text |-> result, modified |-> modified]
  ELSE LET c == chars[i] IN
    IF c \in {LC, CM} THEN
      LET j == SkipWs(chars, i + 1)
          r2 == result \o <<c>> \o SubSeq(chars, i + 1, j - 1) IN
      IF j <= Len(chars) /\ (IsAlphabetic(chars[j]) \/ chars[j] = "_") THEN
        LET k == KeyEnd(chars, j)
            key_chars == SubSeq(chars, j, k - 1)
            m == SkipWs(chars, k) IN
        IF m <= Len(chars) /\ chars[m] = CL
        THEN UnquotedKeys(chars, m, r2 \o <<QT>> \o key_chars \o <<QT>>, TRUE)
        ELSE UnquotedKeys(chars, m, r2 \o key_chars, modified)
      ELSE UnquotedKeys(chars, j, r2, modified)
    ELSE UnquotedKeys(chars, i + 1, Append(result, c), modified)

fix_unquoted_keys(text) ==
  FixedIfModified(UnquotedKeys(text, 1, << >>, FALSE), "UnquotedKeys")

\* A comma is trailing when the next non-whitespace character closes a
\* collection.
IsTrailingComma(chars, i) ==
  LET j == SkipWs(chars, i + 1) IN j <= Len(chars) /\ chars[j] \in {RC, RB}

RECURSIVE DropTrailingCommas(_, _)
DropTrailingCommas(chars, i) ==
  IF i > Len(chars) THEN << >>
  ELSE IF chars[i] = CM /\ IsTrailingComma(chars, i) THEN DropTrailingCommas(chars, i + 1)
  ELSE <<chars[i]>> \o DropTrailingCommas(chars, i + 1)

fix_trailing_commas(text) ==
  FixedIfChanged(DropTrailingCommas(text, 1), text, "TrailingCommas")

\* <<brace_depth, bracket_depth, in_string>> at the end of the text; the
\* depths may go negative.
RECURSIVE OpenDepths(_, _, _, _, _, _)
OpenDepths(s, i, in_string, escape_next, brace, bracket) ==
  IF i > Len(s) THEN <<brace, bracket, in_string>>
  ELSE IF escape_next THEN OpenDepths(s, i + 1, in_string, FALSE, brace, bracket)
  ELSE IF s[i] = BS /\ in_string THEN OpenDepths(s, i + 1, in_string, TRUE, brace, bracket)
  ELSE IF s[i] = QT THEN OpenDepths(s, i + 1, ~in_string, FALSE, brace, bracket)
  ELSE IF s[i] = LC /\ ~in_string THEN OpenDepths(s, i + 1, in_string, FALSE, brace + 1, bracket)
  ELSE IF s[i] = RC /\ ~in_string THEN OpenDepths(s, i + 1, in_string, FALSE, brace - 1, bracket)
  ELSE IF s[i] = LB /\ ~in_string THEN OpenDepths(s, i + 1, in_string, FALSE, brace, bracket + 1)
  ELSE IF s[i] = RB /\ ~in_string THEN OpenDepths(s, i + 1, in_string, FALSE, brace, bracket - 1)
  ELSE OpenDepths(s, i + 1, in_string, FALSE, brace, bracket)

CloseOpen(text, d) ==
  IF d[1] > 0 \/ d[2] > 0
  THEN Fixed((IF d[3] THEN Append(text, QT) ELSE text) \o Repeat(RB, d[2]) \o Repeat(RC, d[1]),
             "UnclosedBraces")
  ELSE NoFix

fix_unclosed_braces(text) == CloseOpen(text, OpenDepths(text, 1, FALSE, FALSE, 0, 0))

RECURSIVE MissingCommas(_, _, _, _, _, _, _)
MissingCommas(chars, i, result, in_string, escape_next, depth, modified) ==
  IF i > Len(chars) THEN [text |-> result, modified |-> modified]
  ELSE LET ch == chars[i] IN
    IF escape_next
    THEN MissingCommas(chars, i + 1, Append(result, ch), in_string, FALSE, depth, modified)
    ELSE IF ch = BS /\ in_string
    THEN MissingCommas(chars, i + 1, Append(result, ch), in_string, TRUE, depth, modified)
    ELSE IF ch = QT THEN
      IF in_string /\ depth > 0 THEN
        LET j == SkipWs(chars, i + 1)
            r2 == Append(result, ch) \o SubSeq(chars, i + 1, j - 1)
            need == j <= Len(chars) /\ chars[j] \in {QT, LC, LB}
                    /\ ~EndsWith(r2, <<CM>>) /\ ~EndsWith(TrimEnd(r2), <<CL>>) IN
        MissingCommas(chars, j, IF need THEN Append(r2, CM) ELSE r2,
                      FALSE, FALSE, depth, modified \/ need)
      ELSE MissingCommas(chars, i + 1, Append(result, ch), ~in_string, FALSE, depth, modified)
    ELSE IF ch \in {LC, LB} /\ ~in_string
    THEN MissingCommas(chars, i + 1, Append(result, ch), in_string, FALSE, depth + 1, modified)
    ELSE IF ch \in {RC, RB} /\ ~in_string THEN
      IF depth - 1 > 0 THEN
        LET j == SkipWs(chars, i + 1)
            r2 == Append(result, ch) \o SubSeq(chars, i + 1, j - 1)
            need == j <= Len(chars) /\ chars[j] \in {QT, LC, LB} /\ ~EndsWith(r2, <<CM>>) IN
        MissingCommas(chars, j, IF need THEN Append(r2, CM) ELSE r2,
                      in_string, FALSE, depth - 1, modified \/ need)
      ELSE MissingCommas(chars, i + 1, Append(result, ch), in_string, FALSE, depth - 1, modified)
    ELSE MissingCommas(chars, i + 1, Append(result, ch), in_string, FALSE, depth, modified)

fix_missing_commas(text) ==
  FixedIfModified(MissingCommas(text, 1, << >>, FALSE, FALSE, 0, FALSE), "MissingCommas")

RECURSIVE EscapeNewlines(_, _, _, _)
EscapeNewlines(chars, i, in_string, escape_next) ==
  IF i > Len(chars) THEN << >>
  ELSE LET ch == chars[i] IN
    IF escape_next THEN <<ch>> \o EscapeNewlines(chars, i + 1, in_string, FALSE)
    ELSE IF ch = BS /\ in_string THEN <<ch>> \o EscapeNewlines(chars, i + 1, in_string, TRUE)
    ELSE IF ch = QT THEN <<ch>> \o EscapeNewlines(chars, i + 1, ~in_string, FALSE)
    ELSE IF ch = NL /\ in_string THEN <<BS, LN>> \o EscapeNewlines(chars, i + 1, in_string, FALSE)
    ELSE <<ch>> \o EscapeNewlines(chars, i + 1, in_string, FALSE)

fix_unescaped_newlines(text) ==
  IF ~Contains(text, NL) THEN NoFix
  ELSE FixedIfChanged(EscapeNewlines(text, 1, FALSE, FALSE), text, "UnescapedNewlines")

\* The string r holds JSON: the unescaped text, else None
UnescapedJson(r) ==
  IF r.ok /\ r.v.t = "str" /\ from_str(r.v.s).ok THEN Fixed(r.v.s, "DoubleEscaped") ELSE NoFix

LooksDoubleEscaped(trimmed) ==
  /\ ByteLen(trimmed) >= 4
  /\ StartsWith(trimmed, <<QT, LC>>) \/ StartsWith(trimmed, <<QT, LB>>)
  /\ EndsWith(trimmed, <<RC, QT>>) \/ EndsWith(trimmed, <<RB, QT>>)

fix_double_escaped(text) ==
  IF LooksDoubleEscaped(Trim(text)) THEN UnescapedJson(from_str(Trim(text))) ELSE NoFix

\* The end of an unquoted value: the first comma, closer or newline
RECURSIVE ValueEnd(_, _)
ValueEnd(chars, j) ==
  IF j <= Len(chars) /\ chars[j] \notin {CM, RC, RB, NL} THEN ValueEnd(chars, j + 1) ELSE j

RECURSIVE UnquotedValues(_, _, _, _, _, _)
UnquotedValues(chars, i, result, in_string, escape_next, modified) ==
  IF i > Len(chars) THEN [text |-> result, modified |-> modified]
  ELSE LET c == chars[i] IN
    IF escape_next
    THEN UnquotedValues(chars, i + 1, Append(result, c), in_string, FALSE, modified)
    ELSE IF c = BS /\ in_string
    THEN UnquotedValues(chars, i + 1, Append(result, c), in_string, TRUE, modified)
    ELSE IF c = QT
    THEN UnquotedValues(chars, i + 1, Append(result, c), ~in_string, FALSE, modified)
    ELSE IF c = CL /\ ~in_string THEN
      LET j == SkipWs(chars, i + 1)
          r2 == Append(result, c) \o SubSeq(chars, i + 1, j - 1) IN
      IF j <= Len(chars) /\ chars[j] \notin {QT, LC, LB} /\ ~IsNumeric(chars[j])
         /\ chars[j] \notin {"t", "f", LN} THEN
        LET k == ValueEnd(chars, j)
            value_chars == SubSeq(chars, j, k - 1)
            value == Trim(value_chars) IN
        IF Len(value) > 0 /\ ~StartsWith(value, <<QT>>)
        THEN UnquotedValues(chars, k, r2 \o <<QT>> \o value \o <<QT>>, in_string, FALSE, TRUE)
        ELSE UnquotedValues(chars, k, r2 \o value_chars, in_string, FALSE, modified)
      ELSE UnquotedValues(chars, j, r2, in_string, FALSE, modified)
    ELSE UnquotedValues(chars, i + 1, Append(result, c), in_string, FALSE, modified)

fix_unquoted_values(text) ==
  FixedIfModified(UnquotedValues(text, 1, << >>, FALSE, FALSE, FALSE), "UnquotedValues")

\* The fixes below return None unless the text holds a character that is not
\* in the alphabet: a single quote, a typographic quote, the word "function",
\* the prefix 0x, a backtick, a slash.
fix_single_quotes(text) == NoFix
fix_smart_quotes(text) == NoFix
fix_javascript_functions(text) == NoFix
fix_hex_numbers(text) == NoFix
fix_template_literals(text) == NoFix
fix_comments(text) == NoFix

\* DISABLED in the source: always None
fix_normalize_field_names(text) == NoFix

\* Returns None unless the text holds three double quotes in a row, which
\* no text of the model does.
fix_triple_quoted_strings(text) == NoFix

ApplyFix(name, text) ==
  CASE name = "DoubleEscaped" -> fix_double_escaped(text)
    [] name = "JavaScriptFunctions" -> fix_javascript_functions(text)
    [] name = "TemplateLiterals" -> fix_template_literals(text)
    [] name = "UnescapedNewlines" -> fix_unescaped_newlines(text)
    [] name = "HexNumbers" -> fix_hex_numbers(text)
    [] name = "SmartQuotes" -> fix_smart_quotes(text)
    [] name = "TrailingCommas" -> fix_trailing_commas(text)
    [] name = "SingleQuotes" -> fix_single_quotes(text)
    [] name = "UnquotedKeys" -> fix_unquoted_keys(text)
    [] name = "TripleQuotedStrings" -> fix_triple_quoted_strings(text)
    [] name = "UnquotedValues" -> fix_unquoted_values(text)
    [] name = "Comments" -> fix_comments(text)
    [] name = "UnclosedBraces" -> fix_unclosed_braces(text)
    [] name = "MissingCommas" -> fix_missing_commas(text)
    [] name = "FieldNormalization" -> fix_normalize_field_names(text)
    [] OTHER -> NoFix

max_attempts == 10

individual_fixes ==
  <<"DoubleEscaped", "JavaScriptFunctions", "TemplateLiterals", "UnescapedNewlines",
    "HexNumbers", "SmartQuotes", "TrailingCommas", "SingleQuotes", "UnquotedKeys",
    "TripleQuotedStrings", "UnquotedValues", "Comments", "UnclosedBraces",
    "MissingCommas", "FieldNormalization">>

fix_combinations ==
  << <<"SmartQuotes", "SingleQuotes">>,
     <<"TrailingCommas", "SingleQuotes">>,
     <<"UnquotedKeys", "TrailingCommas">>,
     <<"Comments", "TrailingCommas">>,
     <<"MissingCommas", "UnquotedKeys">>,
     <<"UnquotedKeys", "UnquotedValues">>,
     <<"UnquotedKeys", "SingleQuotes">>,
     <<"SmartQuotes", "UnquotedKeys", "TrailingCommas">> >>

final_pass_fixes ==
  <<"JavaScriptFunctions", "DoubleEscaped", "FieldNormalization", "SmartQuotes",
    "TemplateLiterals", "Comments", "UnescapedNewlines", "HexNumbers", "UnquotedKeys",
    "SingleQuotes", "MissingCommas", "UnclosedBraces", "TrailingCommas">>

\* The fixer's running state is [candidates, attempts] with the max_attempts
\* of the strategy the call is made on.
PushParsed(st, r, fixes) ==
  IF r.ok THEN [st EXCEPT !.candidates = Append(@, from_fixed_json(r.v, fixes))] ELSE st

PushIfParses(st, text, fixes) == PushParsed(st, from_str(text), fixes)

\* The loop over the individual fixes that applied
RECURSIVE RunIndividualFixes(_, _, _)
RunIndividualFixes(names, text, st) ==
  LET TryFix(fix) ==
        IF ~fix.some THEN RunIndividualFixes(Tail(names), text, st)
        ELSE IF st.attempts >= st.max_attempts THEN st
        ELSE RunIndividualFixes(Tail(names), text,
               PushIfParses([st EXCEPT !.attempts = @ + 1], fix.v, <<fix.fix>>)) IN
  IF Len(names) = 0 THEN st ELSE TryFix(ApplyFix(names[1], text))

\* Applies the fixes in sequence; the result is [current, applied_fixes].
RECURSIVE ApplyInSequence(_, _, _)
ApplyInSequence(names, current, applied_fixes) ==
  LET Applied(fix) ==
        IF fix.some THEN ApplyInSequence(Tail(names), fix.v, Append(applied_fixes, fix.fix))
        ELSE ApplyInSequence(Tail(names), current, applied_fixes) IN
  IF Len(names) = 0 THEN [current |-> current, applied_fixes |-> applied_fixes]
  ELSE Applied(ApplyFix(names[1], current))

try_fix_combination(text, st, fixes) ==
  LET Combined(r) ==
        IF Len(r.applied_fixes) > 0
        THEN PushIfParses([st EXCEPT !.attempts = @ + 1], r.current, r.applied_fixes)
        ELSE st IN
  IF st.attempts >= st.max_attempts THEN st
  ELSE Combined(ApplyInSequence(fixes, text, << >>))

RECURSIVE RunCombinations(_, _, _)
RunCombinations(combos, text, st) ==
  IF Len(combos) = 0 THEN st
  ELSE RunCombinations(Tail(combos), text,
         IF st.attempts < st.max_attempts THEN try_fix_combination(text, st, combos[1])
         ELSE st)

\* The chain of the final pass: every repair in canonical order
FinalChain(text, st) ==
  LET r == ApplyInSequence(final_pass_fixes, text, << >>) IN
  IF Len(r.applied_fixes) > 0 THEN PushIfParses(st, r.current, r.applied_fixes) ELSE st

\* if attempts < self.max_attempts && candidates.is_empty()
FinalPassRuns(st) == st.attempts < st.max_attempts /\ Len(st.candidates) = 0

JsonFixer_final_pass(text, st) == IF FinalPassRuns(st) THEN FinalChain(text, st) ELSE st

\* let mut candidates = Vec::new(); let mut attempts = 0;
FixerStart(cap) == [candidates |-> << >>, attempts |-> 0, max_attempts |-> cap]

\* JsonFixerStrategy::new(cap).parse(text)
JsonFixer_parse_with(cap, text) ==
  JsonFixer_final_pass(text,
    RunCombinations(fix_combinations, text,
      RunIndividualFixes(individual_fixes, text, FixerStart(cap)))).candidates

\* JsonFixerStrategy::default().parse(text)
JsonFixer_parse(text) == JsonFixer_parse_with(max_attempts, text)

\* ------------------------------------------------------------------------
\* MultipleObjectsStrategy
\* ------------------------------------------------------------------------
\* The loop of find_matching_close over chars[start..]; the loop's variables
\* are [depth, in_string, escape_next], and found is the 0-based index
\* returned, -1 for None.
MatchingCloseStep(open, close, st, chars, k) ==
  LET ch == chars[k] IN
  CASE st.escape_next -> [st EXCEPT !.escape_next = FALSE]
    [] ch = BS /\ st.in_string -> [st EXCEPT !.escape_next = TRUE]
    [] ch = QT -> [st EXCEPT !.in_string = ~@]
    [] ch = open /\ ~st.in_string -> [st EXCEPT !.depth = @ + 1]
    [] ch = close /\ ~st.in_string ->
         IF st.depth - 1 = 0 THEN [st EXCEPT !.depth = 0, !.done = TRUE, !.found = k - 1]
         ELSE [st EXCEPT !.depth = @ - 1]
    [] OTHER -> st

find_matching_close(chars, start, open, close) ==
  LET Step(st, cs, k) == MatchingCloseStep(open, close, st, cs, k) IN
  Scan(Step, chars, start + 1, Len(chars),
       [done |-> FALSE, depth |-> 0, in_string |-> FALSE, escape_next |-> FALSE,
        found |-> -1]).found

CloserOf(open) == IF open = LC THEN RC ELSE RB

RECURSIVE find_all_json_values(_, _, _)
find_all_json_values(chars, i0, values) ==
  LET i == SkipWs(chars, i0 + 1) - 1
      Matched(end_idx) ==
        IF end_idx >= 0
        THEN find_all_json_values(chars, end_idx + 1,
               IF from_str(Slice(chars, i, end_idx + 1)).ok
               THEN Append(values, Slice(chars, i, end_idx + 1)) ELSE values)
        ELSE find_all_json_values(chars, i + 1, values) IN
  IF i >= Len(chars) THEN values
  ELSE IF chars[i + 1] \in {LC, LB}
  THEN Matched(find_matching_close(chars, i, chars[i + 1], CloserOf(chars[i + 1])))
  ELSE find_all_json_values(chars, i + 1, values)

ValueIfOk(r) == IF r.ok THEN <<r.v>> ELSE << >>

RECURSIVE ParseAll(_)
ParseAll(strs) ==
  IF Len(strs) = 0 THEN << >> ELSE ValueIfOk(from_str(strs[1])) \o ParseAll(Tail(strs))

WrappedInArray(parsed_values) ==
  IF Len(parsed_values) >= 2
  THEN <<FlexValue_new(JArr(parsed_values), SrcMultiJsonArray)>>
  ELSE << >>

CollectedArray(json_values) ==
  IF Len(json_values) < 2 THEN << >> ELSE WrappedInArray(ParseAll(json_values))

MultipleObjects_parse(text) == CollectedArray(find_all_json_values(text, 0, << >>))

\* ------------------------------------------------------------------------
\* DirectJsonStrategy
\* ------------------------------------------------------------------------
\* The words true and false cannot be spelled in the alphabet.
looks_like_json(s) ==
  \/ Len(s) > 0 /\ s[1] \in {LC, LB, QT}
  \/ StartsWith(s, <<LN, "u", "l", "l">>)
  \/ Len(s) > 0 /\ (IsNumeric(s[1]) \/ s[1] = "-")

\* The candidate of a parse result r, if it is Ok
ParsedAs(r, source) == IF r.ok THEN <<FlexValue_new(r.v, source)>> ELSE << >>

DirectJson_parse(text) ==
  IF ~looks_like_json(Trim(text)) THEN << >> ELSE ParsedAs(from_str(Trim(text)), SrcDirect)

\* ------------------------------------------------------------------------
\* MarkdownStrategy: a code block needs a fence of three backticks, and the
\* backtick is not in the alphabet, so the regex never matches.
\* ------------------------------------------------------------------------
Markdown_parse(text) == << >>

\* ------------------------------------------------------------------------
\* YamlStrategy
\* ------------------------------------------------------------------------
\* str::lines
RECURSIVE Lines(_, _)
Lines(s, cur) ==
  IF Len(s) = 0 THEN (IF Len(cur) = 0 THEN << >> ELSE <<cur>>)
  ELSE IF s[1] = NL THEN <<cur>> \o Lines(Tail(s), << >>)
  ELSE Lines(Tail(s), Append(cur, s[1]))

IsYamlPatternLine(l) ==
  LET line == Trim(l) IN
  Len(line) > 0 /\ ~StartsWith(line, <<"#">>)
  /\ Contains(line, CL) /\ ~StartsWith(line, <<"-">>)

RECURSIVE CountLines(_)
CountLines(ls) ==
  IF Len(ls) = 0 THEN 0
  ELSE (IF IsYamlPatternLine(ls[1]) THEN 1 ELSE 0) + CountLines(Tail(ls))

looks_like_yaml(text) ==
  LET trimmed == Trim(text) IN
  IF StartsWith(trimmed, <<LC>>) \/ StartsWith(trimmed, <<LB>>) THEN FALSE
  ELSE CountLines(Lines(trimmed, << >>)) >= 2

IsPlainWord(w) == Len(w) > 0 /\ \A i \in 1..Len(w) : IsAlphanumeric(w[i])
AllDigits(w) == Len(w) > 0 /\ \A i \in 1..Len(w) : IsNumeric(w[i])

\* One line "key: value" of a block mapping, as [ok, k, v]
YamlLine(line) ==
  LET k == KeyEnd(line, 1)
      key == SubSeq(line, 1, k - 1)
      val == SubSeq(line, k + 2, Len(line)) IN
  IF IsPlainWord(key) /\ ~AllDigits(key)
     /\ k + 1 <= Len(line) /\ line[k] = CL /\ line[k + 1] = SP /\ IsPlainWord(val)
  THEN [ok |-> TRUE, k |-> key, v |-> IF AllDigits(val) THEN JNum(val) ELSE JStr(val)]
  ELSE [ok |-> FALSE, k |-> << >>, v |-> JNull]

RECURSIVE YamlMapping(_, _)
YamlMapping(ls, ms) ==
  LET Entry(r) ==
        IF ~r.ok \/ MapHas(ms, r.k) THEN PFail
        ELSE YamlMapping(Tail(ls), MapInsert(ms, r.k, r.v)) IN
  IF Len(ls) = 0 THEN POk(JObj(ms)) ELSE Entry(YamlLine(ls[1]))

\* serde_yaml::from_str followed by serde_json::to_value (external crates),
\* for the documents the model needs: a block mapping of "key: value" lines
\* with distinct plain keys and plain scalar values.  Any other document is
\* taken as not parsed.
YamlDocument(ls) == IF Len(ls) = 0 THEN PFail ELSE YamlMapping(ls, << >>)

yaml_from_str(text) == YamlDocument(Lines(text, << >>))

Yaml_parse(text) ==
  IF ~looks_like_yaml(text) THEN << >> ELSE ParsedAs(yaml_from_str(text), SrcYaml)

\* ------------------------------------------------------------------------
\* HeuristicStrategy and HeuristicExtractor.  A boundary is
\* [start, end, pattern] with 0-based start and exclusive end.
\* ------------------------------------------------------------------------
MAX_INPUT_SIZE == 1048576
max_candidates == 20

\* The apostrophe, which this matcher also takes as a string delimiter, is
\* not in the alphabet.
Heuristic_find_matching_close(chars, start, open, close) ==
  find_matching_close(chars, start, open, close)

RECURSIVE find_balanced_boundaries(_, _, _, _, _)
find_balanced_boundaries(chars, i, open, close, pattern) ==
  LET Matched(end_idx) ==
        IF end_idx >= 0
        THEN <<[start |-> i, end |-> end_idx + 1, pattern |-> pattern]>>
             \o find_balanced_boundaries(chars, end_idx + 1, open, close, pattern)
        ELSE find_balanced_boundaries(chars, i + 1, open, close, pattern) IN
  IF i >= Len(chars) THEN << >>
  ELSE IF chars[i + 1] = open
  THEN Matched(Heuristic_find_matching_close(chars, i, open, close))
  ELSE find_balanced_boundaries(chars, i + 1, open, close, pattern)

BoundaryBefore(a, b) ==
  a.start < b.start \/ (a.start = b.start /\ a.end - a.start > b.end - b.start)

RECURSIVE InsertBoundary(_, _)
InsertBoundary(sorted, x) ==
  IF Len(sorted) = 0 THEN <<x>>
  ELSE IF BoundaryBefore(x, sorted[1]) THEN <<x>> \o sorted
  ELSE <<sorted[1]>> \o InsertBoundary(Tail(sorted), x)

RECURSIVE SortBoundaries(_)
SortBoundaries(bs) ==
  IF Len(bs) = 0 THEN << >>
  ELSE InsertBoundary(SortBoundaries(SubSeq(bs, 1, Len(bs) - 1)), bs[Len(bs)])

RECURSIVE DedupeBoundaries(_, _)
DedupeBoundaries(bs, deduped) ==
  IF Len(bs) = 0 THEN deduped
  ELSE LET b == bs[1]
           overlaps == \E j \in 1..Len(deduped) :
                         ~(b.end <= deduped[j].start \/ b.start >= deduped[j].end) IN
    DedupeBoundaries(Tail(bs), IF overlaps THEN deduped ELSE Append(deduped, b))

find_json_boundaries(text) ==
  DedupeBoundaries(
    SortBoundaries(find_balanced_boundaries(text, 0, LC, RC, "object")
                   \o find_balanced_boundaries(text, 0, LB, RB, "array")),
    << >>)

Take(xs, n) == SubSeq(xs, 1, Min(n, Len(xs)))

\* if start >= end || *end > input.len() { continue; }
BoundaryKept(text, b) == ~(b.start >= b.end \/ b.end > ByteLen(text))

\* The boundaries whose substring the loop of parse or extract takes
KeptBoundaries(text) ==
  IF ByteLen(text) > MAX_INPUT_SIZE THEN << >>
  ELSE SelectSeq(Take(find_json_boundaries(text), max_candidates),
                 LAMBDA b : BoundaryKept(text, b))

\* let substring = &input[*start..*end]: the source slices the input by
\* bytes with the character indices of the boundary
substring_of(text, start, end) == str_slice(text, start, end)

\* The call panics at the first substring that cannot be taken
Heuristic_panics(text) ==
  \E i \in 1..Len(KeptBoundaries(text)) :
    ~substring_of(text, KeptBoundaries(text)[i].start, KeptBoundaries(text)[i].end).ok

RECURSIVE Heuristic_candidates(_, _)
Heuristic_candidates(text, bs) ==
  IF Len(bs) = 0 THEN << >>
  ELSE LET b == bs[1] IN
    IF ~BoundaryKept(text, b) THEN Heuristic_candidates(text, Tail(bs))
    ELSE ParsedAs(from_str(substring_of(text, b.start, b.end).v), SrcHeuristic(b.pattern))
         \o Heuristic_candidates(text, Tail(bs))

Heuristic_parse(text) ==
  IF ByteLen(text) > MAX_INPUT_SIZE THEN << >>
  ELSE Heuristic_candidates(text, Take(find_json_boundaries(text), max_candidates))

\* ------------------------------------------------------------------------
\* RawPrimitiveStrategy
\* ------------------------------------------------------------------------
RAW_PRIMITIVE_MAX_LEN == 1000

\* A float, as serde_json::Number::from_f64 makes it: it prints as "1.0" and
\* is not an i64.
JFloat(d) == [t |-> "flt", s |-> d, items |-> << >>]

RECURSIVE TrimEndCommas(_)
TrimEndCommas(s) ==
  IF Len(s) > 0 /\ s[Len(s)] = CM THEN TrimEndCommas(SubSeq(s, 1, Len(s) - 1)) ELSE s

RECURSIVE WithoutCommas(_)
WithoutCommas(s) ==
  IF Len(s) = 0 THEN << >>
  ELSE (IF s[1] = CM THEN << >> ELSE <<s[1]>>) \o WithoutCommas(Tail(s))

\* The words true and false cannot be spelled in the alphabet.
try_as_bool(text) == << >>

\* str::parse::<i64> and str::parse::<f64> accept, over the alphabet, the
\* non-empty runs of digits (the f64 parser also reads "nan", which
\* Number::from_f64 rejects).
try_as_number(text) ==
  LET trimmed == TrimEndCommas(Trim(text))
      without_commas == WithoutCommas(TrimEndCommas(Trim(text))) IN
  IF AllDigits(trimmed)
  THEN <<FlexValue_new(JFloat(trimmed), SrcHeuristic("raw_number"))>>
  ELSE IF AllDigits(without_commas)
  THEN <<FlexValue_new(JFloat(without_commas), SrcHeuristic("raw_number_with_commas"))>>
  ELSE << >>

as_string(text) == FlexValue_new(JStr(text), SrcHeuristic("raw_string"))

RawPrimitive_parse(text) ==
  LET trimmed == Trim(text) IN
  IF StartsWith(trimmed, <<LC>>) \/ StartsWith(trimmed, <<LB>>) THEN << >>
  ELSE IF Contains(trimmed, LC) \/ Contains(trimmed, LB) THEN << >>
  ELSE IF StartsWith(trimmed, <<QT>>) /\ from_str(trimmed).ok THEN << >>
  ELSE IF ByteLen(text) > RAW_PRIMITIVE_MAX_LEN THEN << >>
  ELSE try_as_bool(text) \o try_as_number(text) \o <<as_string(text)>>

\* ------------------------------------------------------------------------
\* StateMachineParser.  The parser state is
\* [stack, in_string, escaped, candidates]; a frame is [collection, content].
\* ------------------------------------------------------------------------
StackFrame_new(collection) ==
  [collection |-> collection, content |-> <<IF collection = "Object" THEN LC ELSE LB>>]

append_to_current(st, ch) ==
  IF Len(st.stack) = 0 THEN st
  ELSE [st EXCEPT !.stack[Len(st.stack)].content = Append(@, ch)]

close_collection(st, expected) ==
  IF Len(st.stack) = 0 THEN st
  ELSE LET frame == st.stack[Len(st.stack)]
           rest == SubSeq(st.stack, 1, Len(st.stack) - 1) IN
    IF frame.collection # expected THEN st
    ELSE LET content == Append(frame.content, IF expected = "Object" THEN RC ELSE RB) IN
      IF Len(rest) = 0
      THEN [st EXCEPT !.stack = rest, !.candidates = Append(@, content)]
      ELSE [st EXCEPT !.stack = [rest EXCEPT ![Len(rest)].content = @ \o content]]

handle_colon(st) ==
  IF Len(st.stack) > 0 /\ st.stack[Len(st.stack)].collection = "Object"
  THEN append_to_current(st, CL) ELSE st

handle_comma(st) == append_to_current(st, CM)

\* One iteration of the loop of StateMachineParser::parse
StateMachine_step(st, ch) ==
  IF st.in_string THEN
    IF st.escaped THEN [append_to_current(st, ch) EXCEPT !.escaped = FALSE]
    ELSE IF ch = BS THEN [append_to_current(st, ch) EXCEPT !.escaped = TRUE]
    ELSE IF ch = QT THEN [append_to_current(st, ch) EXCEPT !.in_string = FALSE]
    ELSE append_to_current(st, ch)
  ELSE IF ch = QT THEN [append_to_current(st, ch) EXCEPT !.in_string = TRUE]
  ELSE IF ch = LC THEN [st EXCEPT !.stack = Append(@, StackFrame_new("Object"))]
  ELSE IF ch = RC THEN close_collection(st, "Object")
  ELSE IF ch = LB THEN [st EXCEPT !.stack = Append(@, StackFrame_new("Array"))]
  ELSE IF ch = RB THEN close_collection(st, "Array")
  ELSE IF ch = CL THEN handle_colon(st)
  ELSE IF ch = CM THEN handle_comma(st)
  ELSE append_to_current(st, ch)

RECURSIVE StateMachine_run(_, _, _)
StateMachine_run(chars, position, st) ==
  IF position >= Len(chars) THEN st
  ELSE StateMachine_run(chars, position + 1, StateMachine_step(st, chars[position + 1]))

\* The closing of the collections still open at the end of the input
RECURSIVE StateMachine_close_all(_)
StateMachine_close_all(st) ==
  IF Len(st.stack) = 0 THEN st
  ELSE StateMachine_close_all(close_collection(st, st.stack[Len(st.stack)].collection))

RECURSIVE ConvertFrom(_, _, _)
ConvertFrom(cands, index, use_multi_source) ==
  IF index >= Len(cands) THEN << >>
  ELSE ParsedAs(from_str(cands[index + 1]),
                IF use_multi_source THEN SrcMultiJson(index) ELSE SrcDirect)
       \o ConvertFrom(cands, index + 1, use_multi_source)

\* [ok, candidates]: Err(NoCandidates) when no candidate parses
NonEmptyOrErr(flex_values) == [ok |-> Len(flex_values) > 0, candidates |-> flex_values]

convert_candidates(cands) == NonEmptyOrErr(ConvertFrom(cands, 0, Len(cands) > 1))

StateMachine_parse(text) ==
  convert_candidates(
    StateMachine_close_all(StateMachine_run(text, 0,
      [stack |-> << >>, in_string |-> FALSE, escaped |-> FALSE,
       candidates |-> << >>])).candidates)

\* ------------------------------------------------------------------------
\* FlexibleParser: the strategy list
\* ------------------------------------------------------------------------
\* The order in which FlexibleParser::new pushes the strategies
construction_order ==
  <<"direct_json", "json_fixer", "raw_primitive", "state_machine", "heuristic",
    "markdown", "multiple_objects", "yaml">>

\* A variant of priority in which YamlStrategy shares Markdown's priority
priority_yaml_with_markdown(name) ==
  CASE name = "multiple_objects" -> 0
    [] name = "direct_json" -> 1
    [] name = "markdown" -> 2
    [] name = "yaml" -> 2
    [] name = "json_fixer" -> 3
    [] name = "heuristic" -> 4
    [] name = "raw_primitive" -> 5
    [] name = "state_machine" -> 15

priority(name) ==
  CASE name = "multiple_objects" -> 0
    [] name = "direct_json" -> 1
    [] name = "markdown" -> 2
    [] name = "json_fixer" -> 3
    [] name = "yaml" -> 3
    [] name = "heuristic" -> 4
    [] name = "raw_primitive" -> 5
    [] name = "state_machine" -> 15

\* Vec::sort_by_key is a stable sort
FlexibleParser_new == StableSortByKey(priority, construction_order)

\* strategy.parse(input): [ok, candidates]
Strategy_parse(name, text) ==
  CASE name = "multiple_objects" -> [ok |-> TRUE, candidates |-> MultipleObjects_parse(text)]
    [] name = "direct_json" -> [ok |-> TRUE, candidates |-> DirectJson_parse(text)]
    [] name = "markdown" -> [ok |-> TRUE, candidates |-> Markdown_parse(text)]
    [] name = "json_fixer" -> [ok |-> TRUE, candidates |-> JsonFixer_parse(text)]
    [] name = "yaml" -> [ok |-> TRUE, candidates |-> Yaml_parse(text)]
    [] name = "heuristic" -> [ok |-> TRUE, candidates |-> Heuristic_parse(text)]
    [] name = "raw_primitive" -> [ok |-> TRUE, candidates |-> RawPrimitive_parse(text)]
    [] name = "state_machine" -> StateMachine_parse(text)

\* ------------------------------------------------------------------------
\* Stage 1 to 3 of parse_multi_stage: extract, clean, parse or repair.
\* A Candidate is [content, source].
\* ------------------------------------------------------------------------
DirectExtractor_extract(text) ==
  IF Len(Trim(text)) = 0 THEN << >> ELSE <<[content |-> text, source |-> SrcDirect]>>

RECURSIVE HeuristicExtractor_candidates(_, _)
HeuristicExtractor_candidates(text, bs) ==
  IF Len(bs) = 0 THEN << >>
  ELSE LET b == bs[1] IN
    (IF ~BoundaryKept(text, b) THEN << >>
     ELSE <<[content |-> substring_of(text, b.start, b.end).v,
             source |-> SrcHeuristic(b.pattern)]>>)
    \o HeuristicExtractor_candidates(text, Tail(bs))

HeuristicExtractor_extract(text) ==
  IF ByteLen(text) > MAX_INPUT_SIZE THEN << >>
  ELSE HeuristicExtractor_candidates(text, Take(find_json_boundaries(text), max_candidates))

\* No fence of backticks can occur.
MarkdownExtractor_extract(text) == << >>

extract_candidates(text) ==
  DirectExtractor_extract(text) \o HeuristicExtractor_extract(text)
  \o MarkdownExtractor_extract(text)

RECURSIVE CleanCommas(_, _, _, _, _)
CleanCommas(chars, i, last_was_comma, in_string, escape_next) ==
  IF i > Len(chars) THEN << >>
  ELSE LET ch == chars[i] IN
    IF escape_next THEN <<ch>> \o CleanCommas(chars, i + 1, last_was_comma, in_string, FALSE)
    ELSE IF ch = BS /\ in_string
    THEN <<ch>> \o CleanCommas(chars, i + 1, last_was_comma, in_string, TRUE)
    ELSE IF ch = QT THEN <<ch>> \o CleanCommas(chars, i + 1, FALSE, ~in_string, FALSE)
    ELSE IF ch = CM /\ ~in_string THEN
      (IF last_was_comma THEN << >> ELSE <<ch>>)
      \o CleanCommas(chars, i + 1, TRUE, in_string, FALSE)
    ELSE <<ch>> \o CleanCommas(chars, i + 1,
                               IF IsWhitespace(ch) THEN last_was_comma ELSE FALSE,
                               in_string, FALSE)

clean_multiple_commas(text) == CleanCommas(text, 1, FALSE, FALSE, FALSE)

\* Option::unwrap_or
UnwrapOr(opt, default) == IF opt.some THEN opt.v ELSE default

Cleaner_fix_double_escaped(text) == UnwrapOr(fix_double_escaped(text), text)

RECURSIVE NormalizeWs(_, _, _, _, _)
NormalizeWs(chars, i, in_string, escape_next, last_was_space) ==
  IF i > Len(chars) THEN << >>
  ELSE LET ch == chars[i] IN
    IF escape_next THEN <<ch>> \o NormalizeWs(chars, i + 1, in_string, FALSE, last_was_space)
    ELSE IF ch = BS /\ in_string
    THEN <<ch>> \o NormalizeWs(chars, i + 1, in_string, TRUE, last_was_space)
    ELSE IF ch = QT THEN <<ch>> \o NormalizeWs(chars, i + 1, ~in_string, FALSE, FALSE)
    ELSE IF in_string THEN <<ch>> \o NormalizeWs(chars, i + 1, in_string, FALSE, FALSE)
    ELSE IF IsWhitespace(ch) THEN
      (IF last_was_space THEN << >> ELSE <<SP>>)
      \o NormalizeWs(chars, i + 1, in_string, FALSE, TRUE)
    ELSE <<ch>> \o NormalizeWs(chars, i + 1, in_string, FALSE, FALSE)

normalize_whitespace(text) == Trim(NormalizeWs(text, 1, FALSE, FALSE, FALSE))

\* GarbageCleaner::clean: the content after the six steps
GarbageCleaner_clean(content) ==
  normalize_field_names(
    normalize_whitespace(
      clean_multiple_commas(
        Cleaner_fix_double_escaped(
          fix_unnecessary_backslashes(
            remove_invisible_chars(content))))))

\* A variant of clean_candidates that hands the candidates on as extracted
clean_candidates_skipped(cs) == cs

RECURSIVE clean_candidates(_)
clean_candidates(cs) ==
  IF Len(cs) = 0 THEN << >>
  ELSE <<[cs[1] EXCEPT !.content = GarbageCleaner_clean(@)]>> \o clean_candidates(Tail(cs))

\* Stage 3: each cleaned candidate is parsed, or else repaired
RECURSIVE parse_cleaned(_)
parse_cleaned(cs) ==
  LET ParsedOrFixed(r) ==
        IF r.ok THEN <<FlexValue_new(r.v, cs[1].source)>> ELSE JsonFixer_parse(cs[1].content) IN
  IF Len(cs) = 0 THEN << >>
  ELSE ParsedOrFixed(from_str(cs[1].content)) \o parse_cleaned(Tail(cs))

\* normalize_candidates, for one candidate
normalize_candidate(flex_value) ==
  LET Reparsed(new_value) ==
        IF new_value.ok THEN FlexValue_new(new_value.v, flex_value.source) ELSE flex_value
      Renormalized(json_str, normalized_str) ==
        IF normalized_str # json_str THEN Reparsed(from_str(normalized_str)) ELSE flex_value
      Normalized(json_str) ==
        Renormalized(json_str, normalize_field_names(remove_invisible_chars(json_str)))
      Unwrapped(inner_value) ==
        IF inner_value.ok THEN FlexValue_new(inner_value.v, flex_value.source)
        ELSE Normalized(to_string(flex_value.value)) IN
  Unwrapped(IF flex_value.value.t = "str" THEN from_str(flex_value.value.s) ELSE PFail)

RECURSIVE normalize_candidates(_)
normalize_candidates(cs) ==
  IF Len(cs) = 0 THEN << >>
  ELSE <<normalize_candidate(cs[1])>> \o normalize_candidates(Tail(cs))

\* parse_multi_stage's parsing state:
\*   preprocessed  the pre-cleaned input
\*   next          the 1-based index of the next strategy of the loop
\*   invoked       the strategies called so far, in order
\*   produced      for each invoked strategy, the candidates it returned
\*   all_candidates, needs_normalization  the locals of the source
\*   returned      "" while running, else the return statement taken
ParserStart(text) ==
  [preprocessed |-> Preprocess(text), next |-> 1, invoked |-> << >>, produced |-> << >>,
   all_candidates |-> << >>, needs_normalization |-> FALSE, returned |-> ""]

HasSource(cs, kind) == \E i \in 1..Len(cs) : cs[i].source.kind = kind

\* Vec::append moves every element out of src: [dst, src] afterwards
Vec_append(dst, src) == [dst |-> dst \o src, src |-> << >>]

\* One iteration of the strategy loop of parse_multi_stage, given what
\* strategy.parse(input) returned
strategy_returned(p, strategies, returned) ==
  LET name == strategies[p.next]
      Called(r) ==
        LET q == [p EXCEPT !.next = @ + 1, !.invoked = Append(@, name),
                           !.produced = Append(@, IF r.ok THEN r.candidates ELSE << >>)]
            is_direct == HasSource(r.candidates, "Direct")
            needs_normalization == p.needs_normalization \/ is_direct
            Appended(moved) ==
              LET all_candidates == moved.dst
                  candidates == moved.src IN
              IF Len(all_candidates) > 0 /\ (is_direct \/ HasSource(candidates, "Yaml"))
              THEN [q EXCEPT !.needs_normalization = needs_normalization,
                             !.all_candidates = IF needs_normalization
                                                THEN normalize_candidates(all_candidates)
                                                ELSE all_candidates,
                             !.returned = "short_circuit"]
              ELSE [q EXCEPT !.needs_normalization = needs_normalization,
                             !.all_candidates = all_candidates] IN
        IF ~r.ok THEN q ELSE Appended(Vec_append(p.all_candidates, r.candidates)) IN
  Called(returned)

strategy_iteration(p, strategies) ==
  strategy_returned(p, strategies, Strategy_parse(strategies[p.next], p.preprocessed))

\* The code after the strategy loop
after_strategies(p) ==
  LET Extracted(extracted) ==
        IF Len(extracted) = 0 THEN [p EXCEPT !.returned = "nothing_extracted"]
        ELSE [p EXCEPT !.all_candidates = parse_cleaned(clean_candidates(extracted)),
                       !.returned = "extract_clean_repair"] IN
  IF Len(p.all_candidates) > 0 THEN [p EXCEPT !.returned = "strategies"]
  ELSE Extracted(extract_candidates(p.preprocessed))

\* ------------------------------------------------------------------------
\* Coercion of a candidate into the target type.  A typed result is kept as
\* a JSON value: an i64 as a "num", a String as a "str", a Vec<i64> as an
\* "arr" of "num".
\* ------------------------------------------------------------------------
COk(v) == [ok |-> TRUE, v |-> v, err |-> ""]
CErr(e) == [ok |-> FALSE, v |-> JNull, err |-> e]

\* The matches of NUMBER_REGEX in a text over the alphabet: the maximal
\* runs  digits (, digits)*
RECURSIVE NumberMatches(_, _)
RECURSIVE NumberMatchEnd(_, _)
NumberMatchEnd(s, j) ==
  LET e == ParseDigits(s, j) IN
  IF e + 1 <= Len(s) /\ s[e] = CM /\ IsNumeric(s[e + 1]) THEN NumberMatchEnd(s, e + 1) ELSE e

NumberMatches(s, i) ==
  IF i > Len(s) THEN << >>
  ELSE IF IsNumeric(s[i]) THEN
    LET e == NumberMatchEnd(s, i) IN <<SubSeq(s, i, e - 1)>> \o NumberMatches(s, e)
  ELSE NumberMatches(s, i + 1)

\* [some, v]: the digits of the number
SingleMatch(matches) == IF Len(matches) # 1 THEN None ELSE Some(WithoutCommas(matches[1]))

parse_comma_separated_number(s) == SingleMatch(NumberMatches(s, 1))

\* serde: Value::deserialize drives deserialize_any, which rebuilds the value
RECURSIVE deserialize_any(_)
deserialize_any(v) ==
  CASE v.t = "num" -> JNum(v.s)
    [] v.t = "flt" -> JFloat(v.s)
    [] v.t = "str" -> JStr(v.s)
    [] v.t = "arr" -> JArr([i \in 1..Len(v.items) |-> deserialize_any(v.items[i])])
    [] v.t = "obj" -> JObj([i \in 1..Len(v.items) |-> deserialize_any(v.items[i])])
    [] v.t = "kv" -> JKv(v.s, deserialize_any(v.items[1]))
    [] OTHER -> JNull

\* serde: CoercingDeserializer::deserialize_integer
NumberOrMismatch(f) == IF f.some THEN COk(JNum(f.v)) ELSE CErr("TypeMismatch")

deserialize_integer(v) ==
  CASE v.t = "num" -> COk(JNum(v.s))
    [] v.t = "flt" -> COk(JNum(v.s))
    [] v.t = "str" ->
         IF AllDigits(v.s) THEN COk(JNum(v.s))
         ELSE NumberOrMismatch(parse_comma_separated_number(v.s))
    [] OTHER -> CErr("TypeMismatch")

\* T::deserialize(&mut CoercingDeserializer::new(candidate))
Serde_deserialize(T, candidate) ==
  CASE T = "Value" -> COk(deserialize_any(candidate.value))
    [] T = "i64" -> deserialize_integer(candidate.value)

\* <i64 as LlmDeserialize>
i64_try_deserialize(v) == IF v.t = "num" THEN Some(JNum(v.s)) ELSE None

RECURSIVE i64_deserialize(_)
i64_deserialize(v) ==
  CASE v.t \in {"num", "flt"} -> COk(JNum(v.s))
    [] v.t = "str" ->
         LET str == TrimEndCommas(Trim(v.s)) IN
         IF AllDigits(str) THEN COk(JNum(str))
         ELSE IF str = <<LN, LA, LN>> THEN COk(JNum(<<"0">>))
         ELSE NumberOrMismatch(parse_comma_separated_number(str))
    [] v.t = "arr" /\ Len(v.items) = 1 -> i64_deserialize(v.items[1])
    [] OTHER -> CErr("TypeMismatch")

\* <String as LlmDeserialize>
String_try_deserialize(v) == IF v.t = "str" THEN Some(JStr(v.s)) ELSE None
String_deserialize(v) == IF v.t = "str" THEN COk(JStr(v.s)) ELSE COk(JStr(to_string(v)))

\* <Vec<i64> as LlmDeserialize>
RECURSIVE CollectStrict(_)
CollectStrict(items) ==
  LET Rest(h, t) == IF t.some THEN Some(<<h.v>> \o t.v) ELSE None
      First(h) == IF ~h.some THEN None ELSE Rest(h, CollectStrict(Tail(items))) IN
  IF Len(items) = 0 THEN Some(<< >>) ELSE First(i64_try_deserialize(items[1]))

RECURSIVE CollectLenient(_)
CollectLenient(items) ==
  LET Rest(h, t) == IF t.ok THEN COk(<<h.v>> \o t.v) ELSE CErr(t.err)
      First(h) == IF ~h.ok THEN CErr(h.err) ELSE Rest(h, CollectLenient(Tail(items))) IN
  IF Len(items) = 0 THEN COk(<< >>) ELSE First(i64_deserialize(items[1]))

SomeVec(c) == IF c.some THEN Some(JArr(c.v)) ELSE None
OkVec(c) == IF c.ok THEN COk(JArr(c.v)) ELSE CErr(c.err)
WrappedVec(item) == IF item.ok THEN COk(JArr(<<item.v>>)) ELSE CErr(item.err)

Vec_try_deserialize(v) == IF v.t = "arr" THEN SomeVec(CollectStrict(v.items)) ELSE None

Vec_deserialize(v) ==
  IF v.t = "arr" THEN OkVec(CollectLenient(v.items)) ELSE WrappedVec(i64_deserialize(v))

\* <HashMap<K, i64> as LlmDeserialize> for K = String and K = i64.  The map
\* is the JSON object of its entries, a key K as its characters or digits.
MapTypes == {"HashMap<String, i64>", "HashMap<i64, i64>"}

KeyType(T) == IF T = "HashMap<String, i64>" THEN "String" ELSE "i64"

\* A variant of HashMap_key that lowercases the key
HashMap_key_lowercased(key_str) == JStr([i \in 1..Len(key_str) |-> ToLowercase(key_str[i])])

\* FlexValue::new(Value::String(key_str.clone()), value.source.clone())
HashMap_key(key_str) == JStr(key_str)

Key_try_deserialize(K, key_str) ==
  IF K = "String" THEN String_try_deserialize(HashMap_key(key_str))
  ELSE i64_try_deserialize(HashMap_key(key_str))

Key_deserialize(K, key_str) ==
  IF K = "String" THEN String_deserialize(HashMap_key(key_str))
  ELSE i64_deserialize(HashMap_key(key_str))

RECURSIVE StrictEntries(_, _, _)
StrictEntries(K, members, map) ==
  IF Len(members) = 0 THEN Some(JObj(map))
  ELSE IF ~Key_try_deserialize(K, members[1].s).some THEN None
  ELSE IF ~i64_try_deserialize(members[1].items[1]).some THEN None
  ELSE StrictEntries(K, Tail(members),
                     MapInsert(map, Key_try_deserialize(K, members[1].s).v.s,
                               i64_try_deserialize(members[1].items[1]).v))

RECURSIVE LenientEntries(_, _, _)
LenientEntries(K, members, map) ==
  IF Len(members) = 0 THEN map
  ELSE IF ~Key_deserialize(K, members[1].s).ok THEN LenientEntries(K, Tail(members), map)
  ELSE IF ~i64_deserialize(members[1].items[1]).ok THEN LenientEntries(K, Tail(members), map)
  ELSE LenientEntries(K, Tail(members),
                      MapInsert(map, Key_deserialize(K, members[1].s).v.s,
                                i64_deserialize(members[1].items[1]).v))

HashMap_try_deserialize(K, v) == IF v.t = "obj" THEN StrictEntries(K, v.items, << >>) ELSE None

HashMap_deserialize(K, v) ==
  IF v.t = "obj" THEN COk(JObj(LenientEntries(K, v.items, << >>))) ELSE CErr("TypeMismatch")

\* T::try_deserialize(candidate, &mut ctx) and T::deserialize(candidate, &mut ctx).
\* None of these types records a transformation in the context.
Llm_try_deserialize(T, candidate) ==
  CASE T = "i64" -> i64_try_deserialize(candidate.value)
    [] T = "String" -> String_try_deserialize(candidate.value)
    [] T = "Vec<i64>" -> Vec_try_deserialize(candidate.value)
    [] T \in MapTypes -> HashMap_try_deserialize(KeyType(T), candidate.value)

Llm_deserialize(T, candidate) ==
  CASE T = "i64" -> i64_deserialize(candidate.value)
    [] T = "String" -> String_deserialize(candidate.value)
    [] T = "Vec<i64>" -> Vec_deserialize(candidate.value)
    [] T \in MapTypes -> HashMap_deserialize(KeyType(T), candidate.value)

\* ------------------------------------------------------------------------
\* lib.rs: the entry points
\* ------------------------------------------------------------------------
SerdeEntries == {"parse", "parse_with_candidates", "parse_with_parser"}
LlmEntries == {"parse_llm", "parse_llm_with_candidates"}
EntryPoints == SerdeEntries \cup LlmEntries

TargetsOf(e) == IF e \in SerdeEntries THEN {"Value", "i64"} ELSE {"i64", "String", "Vec<i64>"}

NoResult == [kind |-> "", value |-> JNull, error |-> "", winner |-> 0, mode |-> ""]
OkResult(v, idx, mode) == [kind |-> "Ok", value |-> v, error |-> "", winner |-> idx, mode |-> mode]
ErrNoCandidates == [kind |-> "NoCandidates", value |-> JNull, error |-> "", winner |-> 0, mode |-> ""]
ErrDeserializeFailed(e) ==
  [kind |-> "DeserializeFailed", value |-> JNull, error |-> e, winner |-> 0, mode |-> ""]

\* The error each entry point returns once every candidate has failed
all_candidates_failed(e, errors) ==
  IF e \in {"parse", "parse_with_candidates"}
  THEN ErrDeserializeFailed(IF Len(errors) > 0 THEN errors[1] ELSE "unknown deserialization error")
  ELSE ErrNoCandidates

\* A variant of attempt in which a candidate that fails the strict match is
\* coerced leniently at once, before the next candidate is tried strictly
attempt_interleaved(d, T) ==
  LET candidate == d.ranked[d.idx]
      log == Append(d.attempts, [pass |-> d.pass, idx |-> d.idx])
      Fallible(r, attempts) ==
        IF r.ok THEN [d EXCEPT !.attempts = attempts,
                               !.result = OkResult(r.v, d.idx, IF d.pass = "serde" THEN "serde" ELSE "lenient")]
        ELSE [d EXCEPT !.attempts = attempts, !.errors = Append(@, r.err), !.idx = @ + 1]
      Optional(r) ==
        IF r.some THEN [d EXCEPT !.attempts = log, !.result = OkResult(r.v, d.idx, d.pass)]
        ELSE Fallible(Llm_deserialize(T, candidate),
                      Append(log, [pass |-> "lenient", idx |-> d.idx])) IN
  CASE d.pass = "serde" -> Fallible(Serde_deserialize(T, candidate), log)
    [] d.pass = "strict" -> Optional(Llm_try_deserialize(T, candidate))
    [] d.pass = "lenient" -> Fallible(Llm_deserialize(T, candidate), log)

\* One attempt of the loops of the entry points on ranked[idx] (1-based);
\* the driver state is [ranked, pass, idx, errors, attempts, result].
\* pass is "serde", "strict" or "lenient".
attempt(d, T) ==
  LET candidate == d.ranked[d.idx]
      log == Append(d.attempts, [pass |-> d.pass, idx |-> d.idx])
      Fallible(r) ==
        IF r.ok THEN [d EXCEPT !.attempts = log, !.result = OkResult(r.v, d.idx, d.pass)]
        ELSE [d EXCEPT !.attempts = log, !.errors = Append(@, r.err), !.idx = @ + 1]
      Optional(r) ==
        IF r.some THEN [d EXCEPT !.attempts = log, !.result = OkResult(r.v, d.idx, d.pass)]
        ELSE [d EXCEPT !.attempts = log, !.idx = @ + 1] IN
  CASE d.pass = "serde" -> Fallible(Serde_deserialize(T, candidate))
    [] d.pass = "strict" -> Optional(Llm_try_deserialize(T, candidate))
    [] d.pass = "lenient" -> Fallible(Llm_deserialize(T, candidate))

\* The end of a loop: the strict pass is followed by the lenient pass
loop_end(d, e) ==
  IF d.pass = "strict" THEN [d EXCEPT !.pass = "lenient", !.idx = 1]
  ELSE [d EXCEPT !.result = all_candidates_failed(e, d.errors)]

\* ------------------------------------------------------------------------
\* deserializer/traits.rs: CoercionContext.  visited_* hold (type_name,
\* value) pairs; FlexValue compares by its JSON value only.
\* ------------------------------------------------------------------------
DEFAULT_MAX_DEPTH == 100

CoercionContext_with_max_depth(max_depth) ==
  [visited_for_strict |-> {}, visited_for_lenient |-> {}, depth |-> 0,
   max_depth |-> max_depth, scope |-> <<"<root>">>, transformations |-> << >>,
   deepest |-> 0]

\* deepest is no field of the source: it keeps the nesting level of the
\* deepest value for which a transformation was recorded on the context.

\* CoercionContext::enter_scope, which no deserializer calls
enter_scope(ctx, name) == [ctx EXCEPT !.scope = Append(@, name)]

CoercionContext_new == CoercionContext_with_max_depth(DEFAULT_MAX_DEPTH)

\* "" stands for Ok(())
check_can_enter_strict(ctx, type_name, value) ==
  IF ctx.depth >= ctx.max_depth THEN "DepthLimitExceeded"
  ELSE IF <<type_name, value>> \in ctx.visited_for_strict THEN "CircularReference"
  ELSE ""

\* A variant of with_visited_strict that marks the pair in both sets
with_visited_both(ctx, type_name, value) ==
  [ctx EXCEPT !.visited_for_strict = @ \cup {<<type_name, value>>},
              !.visited_for_lenient = @ \cup {<<type_name, value>>}, !.depth = @ + 1]

with_visited_strict(ctx, type_name, value) ==
  [ctx EXCEPT !.visited_for_strict = @ \cup {<<type_name, value>>}, !.depth = @ + 1]

check_can_enter_lenient(ctx, type_name, value) ==
  IF ctx.depth >= ctx.max_depth THEN "DepthLimitExceeded"
  ELSE IF <<type_name, value>> \in ctx.visited_for_lenient THEN "CircularReference"
  ELSE ""

with_visited_lenient(ctx, type_name, value) ==
  [ctx EXCEPT !.visited_for_lenient = @ \cup {<<type_name, value>>}, !.depth = @ + 1]

CoercionContext_add_transformation(ctx, transformation) ==
  [ctx EXCEPT !.transformations = Append(@, transformation)]

\* ------------------------------------------------------------------------
\* Types that derive LlmDeserialize, by their field descriptors:
\*   struct Node { n: Vec<Node> }
\*   struct Pair { a: i64, n: Option<i64> }
\*   struct Tree { a: i64, n: Vec<Tree> }
\*   struct Wrap { a: i64 }
\*   struct Late { n: Option<i64>, a: i64 }
\*   struct Both { a: i64, A: i64 }
\* type_name is the type the generated closure dispatches to (the inner
\* type of an Option).
\* ------------------------------------------------------------------------
FieldDescriptor_new(name, type_name, is_optional) ==
  [name |-> name, type_name |-> type_name, is_optional |-> is_optional]

StructTypes == {"Node", "Pair", "Tree", "Wrap", "Late", "Both"}

Fields(T) ==
  CASE T = "Node" -> <<FieldDescriptor_new(<<LN>>, "Vec<Node>", FALSE)>>
    [] T = "Pair" -> <<FieldDescriptor_new(<<LA>>, "i64", FALSE),
                       FieldDescriptor_new(<<LN>>, "i64", TRUE)>>
    [] T = "Tree" -> <<FieldDescriptor_new(<<LA>>, "i64", FALSE),
                       FieldDescriptor_new(<<LN>>, "Vec<Tree>", FALSE)>>
    [] T = "Wrap" -> <<FieldDescriptor_new(<<LA>>, "i64", FALSE)>>
    [] T = "Late" -> <<FieldDescriptor_new(<<LN>>, "i64", TRUE),
                       FieldDescriptor_new(<<LA>>, "i64", FALSE)>>
    [] T = "Both" -> <<FieldDescriptor_new(<<LA>>, "i64", FALSE),
                       FieldDescriptor_new(<<UA>>, "i64", FALSE)>>

ElementType(T) == IF T = "Vec<Node>" THEN "Node" ELSE "Tree"

\* to_camel_case: an underscore is dropped and capitalises the next
\* character; the first character is lowercased.  st is
\* [done, result, capitalize_next, first_char]
CamelStep(st, chars, i) ==
  LET ch == chars[i] IN
  IF ch = "_" THEN [st EXCEPT !.capitalize_next = TRUE]
  ELSE IF st.capitalize_next
  THEN [st EXCEPT !.result = Append(@, ToUppercase(ch)), !.capitalize_next = FALSE,
                  !.first_char = FALSE]
  ELSE IF st.first_char
  THEN [st EXCEPT !.result = Append(@, ToLowercase(ch)), !.first_char = FALSE]
  ELSE [st EXCEPT !.result = Append(@, ch)]

to_camel_case(s) ==
  Scan(CamelStep, s, 1, Len(s),
       [done |-> FALSE, result |-> << >>, capitalize_next |-> FALSE, first_char |-> TRUE]).result

\* to_snake_case: an uppercase character is lowercased behind an underscore
\* (none at the start); a hyphen or a dot becomes an underscore
SnakeStep(st, chars, i) ==
  LET ch == chars[i] IN
  IF IsUppercase(ch)
  THEN [st EXCEPT !.result = (IF Len(@) > 0 THEN Append(@, "_") ELSE @) \o <<ToLowercase(ch)>>]
  ELSE IF ch \in {"-", "."} THEN [st EXCEPT !.result = Append(@, "_")]
  ELSE [st EXCEPT !.result = Append(@, ch)]

to_snake_case(s) == Scan(SnakeStep, s, 1, Len(s), [done |-> FALSE, result |-> << >>]).result

\* remove_accents: no character of the alphabet is a ligature or carries a
\* combining mark, so every character is kept
remove_accents(s) == s

\* strip_punctuation keeps alphanumerics, hyphens and underscores
strip_punctuation(s) == SelectSeq(s, LAMBDA c : IsAlphanumeric(c) \/ c \in {"-", "_"})

\* str::to_lowercase
to_lowercase(s) == [i \in 1..Len(s) |-> ToLowercase(s[i])]

\* obj.iter().find(pred): the first member, in key order, that satisfies it
NoField == [some |-> FALSE, key |-> << >>, v |-> JNull]

FindMember(obj, Pred(_)) ==
  IF \E i \in 1..Len(obj) : Pred(obj[i].s)
  THEN LET i == CHOOSE j \in 1..Len(obj) :
                  Pred(obj[j].s) /\ \A h \in 1..(j - 1) : ~Pred(obj[h].s) IN
       [some |-> TRUE, key |-> obj[i].s, v |-> obj[i].items[1]]
  ELSE NoField

\* The strategies of FieldMatcher::find_in_object, from the second on
CaseVariation(expected, key) ==
  \/ key = to_camel_case(expected)
  \/ key = to_snake_case(expected)
  \/ to_camel_case(key) = expected
  \/ to_snake_case(key) = expected
  \/ to_camel_case(key) = to_camel_case(expected)
  \/ to_snake_case(key) = to_snake_case(expected)

FirstHit(hits) ==
  IF \E i \in 1..Len(hits) : hits[i].some
  THEN hits[CHOOSE i \in 1..Len(hits) : hits[i].some /\ \A h \in 1..(i - 1) : ~hits[h].some]
  ELSE NoField

\* FieldMatcher::find_in_object of FieldMatcher::new(expected), which does
\* not allow the substring strategy: [some, key, v]
find_in_object(expected, obj) ==
  FirstHit(<<FindMember(obj, LAMBDA k : k = expected),
             FindMember(obj, LAMBDA k : CaseVariation(expected, k)),
             FindMember(obj, LAMBDA k : remove_accents(k) = remove_accents(expected)),
             FindMember(obj, LAMBDA k : strip_punctuation(k) = strip_punctuation(expected)),
             FindMember(obj, LAMBDA k : to_lowercase(strip_punctuation(k))
                                          = to_lowercase(strip_punctuation(expected)))>>)

\* ------------------------------------------------------------------------
\* The calls of the two-mode coercion as a machine with an explicit call
\* stack.  A frame is one activation of try_deserialize or deserialize:
\*   op         the function: "Struct::try_deserialize",
\*              "Struct::deserialize", "Vec::try_deserialize",
\*              "Vec::deserialize"
\*   type, value, ctx   its arguments (ctx is the &mut CoercionContext)
\*   nested     the nested_ctx of an object entry
\*   phase      "enter", then the helper the activation is in
\*   k          the field or item the loop is at (1-based)
\*   matched    matched_keys of try_lenient_match
\*   filled     the [field, key] of every result.insert of try_lenient_match:
\*              the field and the actual_key its value was found under
\*   transformations    StructDeserializer::transformations
\*   waiting    a call made by the activation has not been consumed yet
\*   out        the value built so far, as JSON: a struct as the object of
\*              its fields (None as null), a Vec as an array
\*   matches    the matches of a union, each [variant, mode, score,
\*              transformations, out]
\*   winner     the variant (1 or 2) a union has chosen
\*   entered    the context as it was when the activation began
\*   level      how deep the value of the activation lies in the value of
\*              the top-level call
\* The machine is [frames, ret, overflow]; ret is the value a call has
\* just returned: [set, ok, err, ctx, by] with by the frame that returned.
\* ------------------------------------------------------------------------
NewFrame(op, T, value, ctx) ==
  [op |-> op, type |-> T, value |-> value, ctx |-> ctx, nested |-> ctx, phase |-> "enter",
   k |-> 1, matched |-> {}, transformations |-> << >>, waiting |-> FALSE, out |-> JNull,
   matches |-> << >>, winner |-> 0, entered |-> ctx, level |-> 0, filled |-> << >>]

NoReturn ==
  [set |-> FALSE, ok |-> FALSE, err |-> "", ctx |-> CoercionContext_new,
   by |-> NewFrame("", "", JNull, CoercionContext_new)]

\* How far the call stack may grow beyond two frames per allowed depth
FrameMargin == 4
MaxFrames == 2 * DEFAULT_MAX_DEPTH + FrameMargin

\* The types whose coercion calls no derived implementation
LeafTypes == {"i64", "String", "Vec<i64>"} \cup MapTypes

OpOf(T, mode) ==
  (IF T \in StructTypes THEN "Struct::" ELSE IF T \in LeafTypes THEN "Leaf::" ELSE "Vec::")
    \o (IF mode = "strict" THEN "try_deserialize" ELSE "deserialize")

Top(m) == m.frames[Len(m.frames)]

\* The activation goes on as frame f
SetTop(m, f) ==
  [frames |-> [m.frames EXCEPT ![Len(m.frames)] = f], ret |-> NoReturn, overflow |-> FALSE]

\* The activation, last seen as frame f, returns
Return(m, f, ok, err, ctx) ==
  [frames |-> SubSeq(m.frames, 1, Len(m.frames) - 1),
   ret |-> [set |-> TRUE, ok |-> ok, err |-> err, ctx |-> ctx, by |-> f],
   overflow |-> FALSE]

\* None of try_deserialize as a Result
OkOrMismatch(r) == IF r.some THEN COk(r.v) ELSE CErr("TypeMismatch")

LeafResult(T, mode, value) ==
  IF mode = "strict" THEN OkOrMismatch(Llm_try_deserialize(T, [value |-> value]))
  ELSE Llm_deserialize(T, [value |-> value])

\* <T as LlmDeserialize> of a leaf type, which returns at once and leaves
\* ctx alone
PrimitiveReturn(T, mode, value, ctx) ==
  [set |-> TRUE,
   ok |-> LeafResult(T, mode, value).ok,
   err |-> LeafResult(T, mode, value).err,
   ctx |-> ctx,
   by |-> [NewFrame(OpOf(T, mode), T, value, ctx) EXCEPT !.out = LeafResult(T, mode, value).v]]

\* The activation, as frame f, calls <T as LlmDeserialize> in the mode
Invoke(m, f, T, mode, value, ctx) ==
  IF T \in LeafTypes
  THEN [frames |-> [m.frames EXCEPT ![Len(m.frames)] = [f EXCEPT !.waiting = TRUE]],
        ret |-> PrimitiveReturn(T, mode, value, ctx), overflow |-> FALSE]
  ELSE IF Len(m.frames) >= MaxFrames THEN [m EXCEPT !.overflow = TRUE]
  ELSE [frames |-> Append([m.frames EXCEPT ![Len(m.frames)] = [f EXCEPT !.waiting = TRUE]],
                          [NewFrame(OpOf(T, mode), T, value, ctx)
                             EXCEPT !.level = IF value = f.value THEN f.level ELSE f.level + 1]),
        ret |-> NoReturn, overflow |-> FALSE]

\* The struct being built gets a field
WithField(f, name, v) == [f EXCEPT !.out = JObj(MapInsert(@.items, name, v))]

\* The Vec being built gets an item
WithItem(f, v) == [f EXCEPT !.out = JArr(Append(@.items, v))]

\* The Vec that was built
WithItems(f) == [f EXCEPT !.out = JArr(@.items)]

\* A variant of HasExtraKeys that lets every object pass
NoExtraKeyCheck(obj, fields) == FALSE

\* obj.len() != self.fields.len()
HasExtraKeys(obj, fields) == Len(obj) # Len(fields)

\* StructDeserializer::try_deserialize, called by the generated
\* try_deserialize, which turns every Err into None
StructDeserializer_try_deserialize(m, f) ==
  LET fields == Fields(f.type)
      obj == f.value.items IN
  IF f.phase = "enter" THEN
    IF f.value.t # "obj" THEN Return(m, f, FALSE, "TypeMismatch", f.ctx)
    ELSE IF check_can_enter_strict(f.ctx, f.type, f.value) # ""
    THEN Return(m, f, FALSE, check_can_enter_strict(f.ctx, f.type, f.value), f.ctx)
    ELSE SetTop(m, [f EXCEPT !.nested = with_visited_strict(f.ctx, f.type, f.value),
                             !.phase = "fields"])
  ELSE IF f.waiting THEN
    IF m.ret.ok
    THEN SetTop(m, [WithField(f, fields[f.k].name, m.ret.by.out)
                      EXCEPT !.nested = m.ret.ctx, !.k = @ + 1, !.waiting = FALSE])
    ELSE Return(m, f, FALSE, "TypeMismatch", f.ctx)
  ELSE IF f.k > Len(fields) THEN
    IF HasExtraKeys(obj, fields) THEN Return(m, f, FALSE, "Custom", f.ctx)
    ELSE Return(m, f, TRUE, "", f.ctx)
  ELSE IF ~MapHas(obj, fields[f.k].name) THEN Return(m, f, FALSE, "MissingField", f.ctx)
  ELSE Invoke(m, f, fields[f.k].type_name, "strict", MapGet(obj, fields[f.k].name), f.nested)

\* A variant of RequiredCount that counts the optional fields too
FieldCount(fields) == Len(fields)

\* self.fields.iter().filter(|f| !f.is_optional).count()
RequiredCount(fields) == Cardinality({i \in 1..Len(fields) : ~fields[i].is_optional})

\* StructDeserializer::deserialize up to the helper it hands over to
StructDeserializer_deserialize(m, f) ==
  LET fields == Fields(f.type) IN
  CASE f.value.t = "obj" ->
         IF check_can_enter_lenient(f.ctx, f.type, f.value) # ""
         THEN Return(m, f, FALSE, check_can_enter_lenient(f.ctx, f.type, f.value), f.ctx)
         ELSE SetTop(m, [f EXCEPT !.nested = with_visited_lenient(f.ctx, f.type, f.value),
                                  !.phase = "try_strict_match"])
    [] f.value.t = "arr" ->
         IF Len(fields) = 1 THEN SetTop(m, [f EXCEPT !.phase = "try_single_field_coercion"])
         ELSE IF Len(f.value.items) < RequiredCount(fields)
         THEN Return(m, f, FALSE, "Custom", f.ctx)
         ELSE SetTop(m, [f EXCEPT !.phase = "try_array_to_struct_coercion"])
    [] OTHER ->
         IF Len(fields) = 1 THEN SetTop(m, [f EXCEPT !.phase = "try_single_field_coercion"])
         ELSE Return(m, f, FALSE, "TypeMismatch", f.ctx)

FallBackToLenient(f, nested) ==
  [f EXCEPT !.phase = "try_lenient_match", !.k = 1, !.waiting = FALSE, !.nested = nested,
            !.out = JNull]

\* StructDeserializer::try_strict_match, and the return of its Some
try_strict_match(m, f) ==
  LET fields == Fields(f.type)
      obj == f.value.items IN
  IF f.waiting THEN
    IF m.ret.ok
    THEN SetTop(m, [WithField(f, fields[f.k].name, m.ret.by.out)
                      EXCEPT !.nested = m.ret.ctx, !.k = @ + 1, !.waiting = FALSE])
    ELSE SetTop(m, FallBackToLenient(f, m.ret.ctx))
  ELSE IF f.k > Len(fields) THEN
    IF HasExtraKeys(obj, fields) THEN SetTop(m, FallBackToLenient(f, f.nested))
    ELSE Return(m, f, TRUE, "", f.ctx)
  ELSE IF ~MapHas(obj, fields[f.k].name) THEN SetTop(m, FallBackToLenient(f, f.nested))
  ELSE Invoke(m, f, fields[f.k].type_name, "strict", MapGet(obj, fields[f.k].name), f.nested)

\* The context has been recorded on by an activation of the level
AtLevel(ctx, level) == [ctx EXCEPT !.deepest = IF level > @ THEN level ELSE @]

\* self.transformations.push(t); ctx.add_transformation(t) on the nested_ctx
Recorded(f, transformation) ==
  [f EXCEPT !.transformations = Append(@, transformation),
            !.nested = AtLevel(CoercionContext_add_transformation(@, transformation), f.level)]

\* self.transformations.push(t); ctx.add_transformation(t) on the caller's ctx
RecordedOnCaller(f, ctx, transformation) ==
  [f EXCEPT !.transformations = Append(@, transformation),
            !.ctx = AtLevel(CoercionContext_add_transformation(ctx, transformation), f.level)]

RECURSIVE TrackExtraKeys(_, _)
TrackExtraKeys(f, i) ==
  IF i > Len(f.value.items) THEN f
  ELSE TrackExtraKeys(IF f.value.items[i].s \in f.matched THEN f
                      ELSE Recorded(f, ExtraKey(f.value.items[i].s)),
                      i + 1)

\* A variant of DefaultsOnFailure under which an optional field that fails
\* to coerce fails the struct, as a required field does
NeverDefaults(field) == FALSE

\* if field.is_optional { ... continue } else { return Err(e) }
DefaultsOnFailure(field) == field.is_optional

\* StructDeserializer::try_lenient_match
\* A matching that does not remember the keys it has found
matched_keys_forgotten(matched_keys, actual_key) == matched_keys

\* matched_keys.insert(actual_key.clone())
matched_keys_insert(matched_keys, actual_key) == matched_keys \cup {actual_key}

try_lenient_match(m, f) ==
  LET fields == Fields(f.type)
      obj == f.value.items
      Found(field, hit) ==
        IF hit.some
        THEN Invoke(m, IF hit.key # field.name
                       THEN [f EXCEPT !.matched = matched_keys_insert(@, hit.key),
                                      !.transformations =
                                        Append(@, FieldNameCaseChanged(hit.key, field.name))]
                       ELSE [f EXCEPT !.matched = matched_keys_insert(@, hit.key)],
                    field.type_name, "lenient", hit.v, f.nested)
        ELSE IF field.is_optional
        THEN SetTop(m, [Recorded(WithField(f, field.name, JNull),
                                 DefaultValueInserted(field.name)) EXCEPT !.k = @ + 1])
        ELSE Return(m, f, FALSE, "MissingField", f.ctx) IN
  IF f.waiting THEN
    IF m.ret.ok
    THEN SetTop(m, [WithField(f, fields[f.k].name, m.ret.by.out)
                      EXCEPT !.nested = m.ret.ctx, !.k = @ + 1, !.waiting = FALSE,
                             !.filled = Append(@, [field |-> fields[f.k].name,
                                                   key |-> find_in_object(fields[f.k].name,
                                                                          obj).key])])
    ELSE IF DefaultsOnFailure(fields[f.k])
    THEN SetTop(m, [Recorded([WithField(f, fields[f.k].name, JNull)
                                EXCEPT !.nested = m.ret.ctx],
                             DefaultValueInserted(fields[f.k].name))
                      EXCEPT !.k = @ + 1, !.waiting = FALSE])
    ELSE Return(m, f, FALSE, m.ret.err, f.ctx)
  ELSE IF f.k > Len(fields) THEN Return(m, TrackExtraKeys(f, 1), TRUE, "", f.ctx)
  ELSE Found(fields[f.k], find_in_object(fields[f.k].name, obj))

\* StructDeserializer::try_single_field_coercion
try_single_field_coercion(m, f) ==
  LET field == Fields(f.type)[1]
      Implied(g) == Return(m, g, TRUE, "", g.ctx) IN
  IF ~f.waiting THEN Invoke(m, f, field.type_name, "lenient", f.value, f.ctx)
  ELSE IF m.ret.ok
  THEN Implied(RecordedOnCaller(WithField(f, field.name, m.ret.by.out), m.ret.ctx,
                                ImpliedKey(field.name)))
  ELSE IF field.is_optional
  THEN Implied(RecordedOnCaller(WithField(f, field.name, JNull), m.ret.ctx,
                                DefaultValueInserted(field.name)))
  ELSE Return(m, f, FALSE, m.ret.err, m.ret.ctx)

\* StructDeserializer::try_array_to_struct_coercion
try_array_to_struct_coercion(m, f) ==
  LET fields == Fields(f.type)
      arr == f.value.items
      Advance(g) == SetTop(m, [g EXCEPT !.k = @ + 1, !.waiting = FALSE]) IN
  IF f.waiting THEN
    IF m.ret.ok
    THEN Advance(RecordedOnCaller(WithField(f, fields[f.k].name, m.ret.by.out), m.ret.ctx,
                                  FirstMatch(f.k - 1, Len(arr))))
    ELSE IF fields[f.k].is_optional
    THEN Advance(RecordedOnCaller(WithField(f, fields[f.k].name, JNull), m.ret.ctx,
                                  DefaultButHadUnparseableValue(fields[f.k].name)))
    ELSE Return(m, f, FALSE, m.ret.err, m.ret.ctx)
  ELSE IF f.k > Len(fields) THEN Return(m, f, TRUE, "", f.ctx)
  ELSE IF f.k > Len(arr) THEN
    IF fields[f.k].is_optional
    THEN Advance(RecordedOnCaller(WithField(f, fields[f.k].name, JNull), f.ctx,
                                  DefaultValueInserted(fields[f.k].name)))
    ELSE Return(m, f, FALSE, "Custom", f.ctx)
  ELSE Invoke(m, f, fields[f.k].type_name, "lenient", arr[f.k], f.ctx)

\* <Vec<T> as LlmDeserialize>::try_deserialize for a struct T
VecOfStruct_try_deserialize(m, f) ==
  IF f.value.t # "arr" THEN Return(m, f, FALSE, "TypeMismatch", f.ctx)
  ELSE IF f.waiting THEN
    IF m.ret.ok
    THEN SetTop(m, [WithItem(f, m.ret.by.out)
                      EXCEPT !.ctx = m.ret.ctx, !.k = @ + 1, !.waiting = FALSE])
    ELSE Return(m, f, FALSE, m.ret.err, m.ret.ctx)
  ELSE IF f.k > Len(f.value.items) THEN Return(m, WithItems(f), TRUE, "", f.ctx)
  ELSE Invoke(m, f, ElementType(f.type), "strict", f.value.items[f.k], f.ctx)

\* <Vec<T> as LlmDeserialize>::deserialize for a struct T
VecOfStruct_deserialize(m, f) ==
  IF f.value.t = "arr" THEN
    IF f.waiting THEN
      IF m.ret.ok
      THEN SetTop(m, [WithItem(f, m.ret.by.out)
                        EXCEPT !.ctx = m.ret.ctx, !.k = @ + 1, !.waiting = FALSE])
      ELSE Return(m, f, FALSE, m.ret.err, m.ret.ctx)
    ELSE IF f.k > Len(f.value.items) THEN Return(m, WithItems(f), TRUE, "", f.ctx)
    ELSE Invoke(m, f, ElementType(f.type), "lenient", f.value.items[f.k], f.ctx)
  ELSE IF ~f.waiting THEN Invoke(m, f, ElementType(f.type), "lenient", f.value, f.ctx)
  ELSE Return(m, WithItem(f, m.ret.by.out), m.ret.ok, m.ret.err, m.ret.ctx)

\* ------------------------------------------------------------------------
\* Unions.  An enum with #[llm(union)] gets its deserialize from the derive
\* macro; UnionDeserializer is the helper of deserializer/union_coercer.rs.
\*   enum WrapOrInt { W(Wrap), I(i64) }
\*   enum IntOrString { I(i64), S(String) }
\*   enum StringOrPair { S(String), P(Pair) }
\* ------------------------------------------------------------------------
UnionTypes == {"WrapOrInt", "IntOrString", "StringOrPair"}

Variants(U) ==
  CASE U = "WrapOrInt" -> <<"Wrap", "i64">>
    [] U = "IntOrString" -> <<"i64", "String">>
    [] U = "StringOrPair" -> <<"String", "Pair">>

\* The transformations a context has gained since it was before
Gained(before, after) ==
  SubSeq(after.transformations, Len(before.transformations) + 1, Len(after.transformations))

RECURSIVE AddAll(_, _)
AddAll(ctx, transformations) ==
  IF Len(transformations) = 0 THEN ctx
  ELSE AddAll(CoercionContext_add_transformation(ctx, transformations[1]), Tail(transformations))

\* calculate_score_from_context
calculate_score_from_context(ctx) == SumOver(Transformation_penalty, ctx.transformations)

HasKind(transformations, kind) ==
  \E i \in 1..Len(transformations) : KindOf(transformations[i]) = kind

is_list_transformation(transformations) ==
  HasKind(transformations, "SingleToArray") \/ HasKind(transformations, "ArrayItemParseError")

count_array_errors(transformations) ==
  Cardinality({i \in 1..Len(transformations) :
                 KindOf(transformations[i]) = "ArrayItemParseError"})

is_all_defaults(transformations) ==
  /\ HasKind(transformations, "DefaultValueInserted")
  /\ ~ \/ HasKind(transformations, "StringToNumber")
        \/ HasKind(transformations, "FloatToInt")
        \/ HasKind(transformations, "FieldNameCaseChanged")

\* match (a_has, b_has): (true, false) prefers b, (false, true) prefers a
Prefer(a_has, b_has) ==
  IF a_has /\ ~b_has THEN "Greater" ELSE IF ~a_has /\ b_has THEN "Less" ELSE "Equal"

FirstDecided(orderings) ==
  IF \E i \in 1..Len(orderings) : orderings[i] # "Equal"
  THEN orderings[CHOOSE i \in 1..Len(orderings) :
                   orderings[i] # "Equal" /\ \A h \in 1..(i - 1) : orderings[h] = "Equal"]
  ELSE "Equal"

\* apply_union_heuristics: the Ordering of match a against match b
apply_union_heuristics(a, b) ==
  LET List(ordering) ==
        IF is_list_transformation(a.transformations) /\ is_list_transformation(b.transformations)
        THEN ordering ELSE "Equal"
      Errors ==
        IF count_array_errors(a.transformations) < count_array_errors(b.transformations)
        THEN "Less"
        ELSE IF count_array_errors(a.transformations) > count_array_errors(b.transformations)
        THEN "Greater" ELSE "Equal" IN
  FirstDecided(<<
    List(Prefer(HasKind(a.transformations, "SingleToArray"),
                HasKind(b.transformations, "SingleToArray"))),
    List(Prefer(HasKind(a.transformations, "ObjectFromMarkdown"),
                HasKind(b.transformations, "ObjectFromMarkdown"))),
    List(Errors),
    Prefer(HasKind(a.transformations, "ImpliedKey"), HasKind(b.transformations, "ImpliedKey")),
    Prefer(is_all_defaults(a.transformations), is_all_defaults(b.transformations)),
    Prefer(HasKind(a.transformations, "JsonToString"),
           HasKind(b.transformations, "JsonToString")) >>)

\* A match of a union: the variant, the mode it matched in, the score the
\* code gives it, the transformations its coercion recorded and its value
UnionMatch_new(variant, mode, score, transformations, out) ==
  [variant |-> variant, mode |-> mode, score |-> score, transformations |-> transformations,
   out |-> out]

\* matches.sort_by(..): a stable sort, so the second match comes first only
\* if it compares less
SortedMatches(matches, Greater(_, _)) ==
  IF Len(matches) = 2 /\ Greater(matches[1], matches[2]) THEN <<matches[2], matches[1]>>
  ELSE matches

ByScoreThenHeuristics(a, b) ==
  \/ a.score > b.score
  \/ a.score = b.score /\ apply_union_heuristics(a, b) = "Greater"

ByScore(a, b) == a.score > b.score

\* A variant of LenientPassNeeded that coerces leniently whatever matched
LenientPassAlways(matches) == TRUE

\* if matches.is_empty()
LenientPassNeeded(matches) == Len(matches) = 0

\* The index UnionDeserializer::deserialize records: "Winner is always at
\* index 0 after sorting"
RecordedIndex(winning_match) == 0

\* UnionDeserializer::deserialize over UnionDeserializer::try_all
UnionDeserializer_deserialize(m, f) ==
  LET V == Variants(f.type)
      Pushed(mode, variant, score) ==
        IF m.ret.ok
        THEN Append(f.matches,
                    UnionMatch_new(variant, mode, score, m.ret.ctx.transformations, m.ret.by.out))
        ELSE f.matches
      Try(matches, phase, variant, mode) ==
        Invoke(m, [f EXCEPT !.matches = matches, !.phase = phase], V[variant], mode, f.value, f.ctx)
      Won(matches, winning_match) ==
        Return(m, [f EXCEPT !.matches = matches, !.winner = winning_match.variant,
                            !.out = winning_match.out],
               TRUE, "",
               AddAll(CoercionContext_add_transformation(
                        f.ctx, UnionMatch(RecordedIndex(winning_match), V)),
                      winning_match.transformations))
      Decide(matches) ==
        IF Len(matches) = 0 THEN Return(m, [f EXCEPT !.matches = matches], FALSE, "Custom", f.ctx)
        ELSE Won(matches, SortedMatches(matches, ByScoreThenHeuristics)[1])
      AfterStrict(matches) ==
        IF LenientPassNeeded(matches) THEN Try(matches, "lenient1", 1, "lenient")
        ELSE Decide(matches) IN
  CASE f.phase = "enter" -> Try(f.matches, "strict1", 1, "strict")
    [] f.phase = "strict1" -> Try(Pushed("strict", 1, 0), "strict2", 2, "strict")
    [] f.phase = "strict2" -> AfterStrict(Pushed("strict", 2, 0))
    [] f.phase = "lenient1" ->
         Try(Pushed("lenient", 1, calculate_score_from_context(m.ret.ctx)),
             "lenient2", 2, "lenient")
    [] f.phase = "lenient2" ->
         Decide(Pushed("lenient", 2, calculate_score_from_context(m.ret.ctx)))

\* value1.transformations().iter().map(|t| t.penalty()).sum() of value1 =
\* value.clone(): the candidate's own transformations, which deserialize
\* never changes and FlexValue::new has none of
CloneScore(value) == SumOver(Transformation_penalty, << >>)

\* The deserialize that generate_union_deserialize generates; the one
\* context is shared by every call
Union_deserialize(m, f) ==
  LET V == Variants(f.type)
      Try(g, phase, variant, mode, ctx) ==
        Invoke(m, [g EXCEPT !.phase = phase, !.nested = ctx], V[variant], mode, f.value, ctx)
      StrictMatch(variant) ==
        Return(m, [f EXCEPT !.matches = <<UnionMatch_new(variant, "strict", 0, << >>, m.ret.by.out)>>,
                            !.winner = variant, !.out = m.ret.by.out],
               TRUE, "",
               CoercionContext_add_transformation(m.ret.ctx, UnionMatch(variant - 1, V)))
      Pushed(variant, before) ==
        IF m.ret.ok
        THEN [f EXCEPT !.matches =
                Append(@, UnionMatch_new(variant, "lenient", CloneScore(f.value),
                                         Gained(before, m.ret.ctx), m.ret.by.out))]
        ELSE f
      Again(g, variant) ==
        Try([g EXCEPT !.winner = variant], "again", variant, "lenient",
            CoercionContext_add_transformation(m.ret.ctx, UnionMatch(variant - 1, V)))
      Decide(g) ==
        IF Len(g.matches) = 0 THEN Return(m, g, FALSE, "Custom", m.ret.ctx)
        ELSE Again(g, SortedMatches(g.matches, ByScore)[1].variant) IN
  CASE f.phase = "enter" -> Try(f, "strict1", 1, "strict", f.ctx)
    [] f.phase = "strict1" ->
         IF m.ret.ok THEN StrictMatch(1) ELSE Try(f, "strict2", 2, "strict", m.ret.ctx)
    [] f.phase = "strict2" ->
         IF m.ret.ok THEN StrictMatch(2) ELSE Try(f, "lenient1", 1, "lenient", m.ret.ctx)
    [] f.phase = "lenient1" -> Try(Pushed(1, f.nested), "lenient2", 2, "lenient", m.ret.ctx)
    [] f.phase = "lenient2" -> Decide(Pushed(2, f.nested))
    [] f.phase = "again" ->
         Return(m, [f EXCEPT !.out = m.ret.by.out], m.ret.ok, m.ret.err, m.ret.ctx)

\* LlmDeserialize::try_deserialize, the default of the trait, which is all
\* an enum with #[llm(union)] has
Union_try_deserialize(m, f) == Return(m, f, FALSE, "TypeMismatch", f.ctx)

\* ------------------------------------------------------------------------
\* The calls that are explored
\* ------------------------------------------------------------------------
\* How far beyond MAX_NESTING_DEPTH the deepest input nests
NestMargin == 1

Nest(n, inner) == Repeat(LB, n) \o inner \o Repeat(RB, n)

Inputs ==
  { <<D1>>,                                      \* 1
    <<LB, D1, RB>>,                              \* [1]
    <<LB, RB>>,                                  \* []
    <<QT, LA, QT>>,                              \* "a"
    <<QT, D1, QT>>,                              \* "1"
    <<QT, LB, D1, RB, QT>>,                      \* "[1]"
    <<QT, LA, ZW, QT>>,                          \* "a<U+200B>"
    <<LC, QT, LA, QT, CL, D1, RC>>,              \* {"a":1}
    <<LC, QT, LA, QT, CL, LB, D1, RB, RC>>,      \* {"a":[1]}
    <<SP, LB, D1, CM, SP, D1, RB, SP>>,          \*  [1, 1]
    <<QT, LB, D1, RB, SP, LB, D1, RB, QT>>,      \* "[1] [1]"
    Nest(MAX_NESTING_DEPTH, <<D1>>),
    Nest(MAX_NESTING_DEPTH + NestMargin, <<D1>>),
    <<LB, D1>>,                                  \* [1
    <<LB, D1, RB, SP, LB, D1, RB>>,              \* [1] [1]
    <<LB, LB, D1, RB, RB, SP, LB, D1, RB>>,      \* [[1]] [1]
    <<LA, SP, LB, D1, RB, SP, LA>>,              \* a [1] a
    <<LB, D1, CM, RB>>,                          \* [1,]
    <<LB, D1, CM, CM, D1, RB>>,                  \* [1,,1]
    <<LB, LA>>,                                  \* [a
    <<LA, CL, SP, D1, NL, LA, LA, CL, SP, D1>>,  \* a: 1 / aa: 1
    <<D1, CM>>,                                  \* 1,
    <<D1, CM, D1>>,                              \* 1,1
    <<LA>>,                                      \* a
    <<LC, LA, CL, D1, RC>>,                      \* {a:1}
    <<LB, D1, RB, ZW>>,                          \* [1]<U+200B>
    <<LA, SP, LB, D1, CM, RB, SP, LA>>,          \* a [1,] a
    << >> }

VARIABLES entry, target, input, pc, parser, driver, frames, ret

vars == <<entry, target, input, pc, parser, driver, frames, ret>>

NotStarted ==
  [preprocessed |-> << >>, next |-> 1, invoked |-> << >>, produced |-> << >>,
   all_candidates |-> << >>, needs_normalization |-> FALSE, returned |-> ""]

NoDriver ==
  [ranked |-> << >>, pass |-> "", idx |-> 1, errors |-> << >>, attempts |-> << >>,
   result |-> NoResult]

\* The parser every entry point uses
strategies == FlexibleParser_new

Init ==
  /\ entry \in EntryPoints
  /\ target \in TargetsOf(entry)
  /\ input \in Inputs
  /\ pc = "call"
  /\ parser = NotStarted
  /\ driver = NoDriver
  /\ frames = << >>
  /\ ret = NoReturn

\* parse_multi_stage, step 0 to step 2
PreClean ==
  /\ pc = "call"
  /\ parser' = ParserStart(input)
  /\ pc' = "strategies"
  /\ UNCHANGED <<entry, target, input, driver, frames, ret>>

\* parse_multi_stage, one iteration of the loop over the strategies
RunStrategy ==
  /\ pc = "strategies"
  /\ parser.next <= Len(strategies)
  /\ parser' = strategy_iteration(parser, strategies)
  /\ pc' = IF parser'.returned # "" THEN "parsed" ELSE "strategies"
  /\ UNCHANGED <<entry, target, input, driver, frames, ret>>

\* parse_multi_stage after the loop
AfterStrategies ==
  /\ pc = "strategies"
  /\ parser.next > Len(strategies)
  /\ parser' = after_strategies(parser)
  /\ pc' = "parsed"
  /\ UNCHANGED <<entry, target, input, driver, frames, ret>>

\* The entry point's  if candidates.is_empty()
NoCandidatesReturn ==
  /\ pc = "parsed"
  /\ Len(parser.all_candidates) = 0
  /\ driver' = [driver EXCEPT !.result = ErrNoCandidates]
  /\ pc' = "done"
  /\ UNCHANGED <<entry, target, input, parser, frames, ret>>

\* scoring::rank_candidates(candidates)
Rank ==
  /\ pc = "parsed"
  /\ Len(parser.all_candidates) > 0
  /\ driver' = [driver EXCEPT !.ranked = rank_candidates(parser.all_candidates),
                              !.pass = IF entry \in SerdeEntries THEN "serde" ELSE "strict",
                              !.idx = 1]
  /\ pc' = "coerce"
  /\ UNCHANGED <<entry, target, input, parser, frames, ret>>

\* One iteration of a loop over the ranked candidates
Attempt ==
  /\ pc = "coerce"
  /\ driver.idx <= Len(driver.ranked)
  /\ driver' = attempt(driver, target)
  /\ pc' = IF driver'.result.kind # "" THEN "done" ELSE "coerce"
  /\ UNCHANGED <<entry, target, input, parser, frames, ret>>

\* A loop over the ranked candidates runs out
LoopEnd ==
  /\ pc = "coerce"
  /\ driver.idx > Len(driver.ranked)
  /\ driver' = loop_end(driver, entry)
  /\ pc' = IF driver'.result.kind # "" THEN "done" ELSE "coerce"
  /\ UNCHANGED <<entry, target, input, parser, frames, ret>>

Next ==
  \/ PreClean
  \/ RunStrategy
  \/ AfterStrategies
  \/ NoCandidatesReturn
  \/ Rank
  \/ Attempt
  \/ LoopEnd

Spec == Init /\ [][Next]_vars

\* ------------------------------------------------------------------------
\* rank_candidates on vectors of candidates pushed in any order
\* ------------------------------------------------------------------------
\* The longest vector ranked
MaxCandidates == 4

RankPool ==
  { FlexValue_new(JNum(<<D1>>), SrcDirect),
    FlexValue_new(JArr(<< >>), SrcDirect),
    add_transformation(FlexValue_new(JNum(<<D1>>), SrcDirect), "StringToNumber"),
    from_fixed_json(JNum(<<D1>>), << >>),
    FlexValue_new(JNum(<<D1>>), SrcMultiJson(0)),
    FlexValue_new(JArr(<< >>), SrcHeuristic("raw_string")) }

InitRank ==
  /\ entry = "" /\ target = "" /\ input = << >>
  /\ pc = "collect"
  /\ parser = NotStarted
  /\ driver = NoDriver
  /\ frames = << >> /\ ret = NoReturn

\* all_candidates.push(candidate)
PushCandidate ==
  /\ pc = "collect"
  /\ Len(parser.all_candidates) < MaxCandidates
  /\ \E c \in RankPool : parser' = [parser EXCEPT !.all_candidates = Append(@, c)]
  /\ UNCHANGED <<entry, target, input, pc, driver, frames, ret>>

\* let ranked = scoring::rank_candidates(candidates)
RankCandidates ==
  /\ pc = "collect"
  /\ driver' = [driver EXCEPT !.ranked = rank_candidates(parser.all_candidates)]
  /\ pc' = "ranked"
  /\ UNCHANGED <<entry, target, input, parser, frames, ret>>

NextRank == PushCandidate \/ RankCandidates

SpecRank == InitRank /\ [][NextRank]_vars

\* ------------------------------------------------------------------------
\* add_transformation and add_transformation_at_depth on one FlexValue,
\* which is kept as driver.ranked[1]
\* ------------------------------------------------------------------------
\* The most transformations one value is given
MaxAdded == 2

\* The deepest level add_transformation_at_depth is called with
MaxLevel == 2

ValuePool ==
  { FlexValue_new(JNum(<<D1>>), SrcDirect),
    FlexValue_new(JNum(<<D1>>), SrcMarkdown),
    FlexValue_new(JArr(<< >>), SrcYaml),
    from_fixed_json(JNum(<<D1>>), << >>),
    from_fixed_json(JArr(<< >>), <<"TrailingCommas", "UnquotedValues">>),
    FlexValue_new(JNum(<<D1>>), SrcMultiJsonArray),
    FlexValue_new(JNum(<<D1>>), SrcMultiJson(1)),
    FlexValue_new(JArr(<< >>), SrcHeuristic("raw_string")) }

SampleTransformations ==
  { "ExtractedFromMarkdown", "StringToNumber", "FloatToInt", "SingleToArray",
    DefaultValueInserted(<<LA>>), ExtraKey(<<LA>>), ObjectFromMarkdown(-1),
    ObjectFromMarkdown(7), ArrayItemParseError(2), ConstraintChecked(FALSE, TRUE),
    ConstraintChecked(TRUE, TRUE), UnionMatch(0, <<"i64", "String">>), FirstMatch(0, 2) }

InitValue ==
  /\ entry = "" /\ target = "" /\ input = << >>
  /\ pc = "value"
  /\ parser = NotStarted
  /\ \E c \in ValuePool : driver = [NoDriver EXCEPT !.ranked = <<c>>]
  /\ frames = << >> /\ ret = NoReturn

\* value.add_transformation(t)
AddTransformation ==
  /\ pc = "value"
  /\ Len(driver.ranked[1].transformations) < MaxAdded
  /\ \E t \in SampleTransformations :
       driver' = [driver EXCEPT !.ranked[1] = add_transformation(@, t)]
  /\ UNCHANGED <<entry, target, input, pc, parser, frames, ret>>

\* value.add_transformation_at_depth(t, depth)
AddTransformationAtDepth ==
  /\ pc = "value"
  /\ Len(driver.ranked[1].transformations) < MaxAdded
  /\ \E t \in {"StringToNumber", DefaultValueInserted(<<LA>>)}, depth \in 0..MaxLevel :
       driver' = [driver EXCEPT !.ranked[1] = add_transformation_at_depth(@, t, depth)]
  /\ UNCHANGED <<entry, target, input, pc, parser, frames, ret>>

NextValue == AddTransformation \/ AddTransformationAtDepth

SpecValue == InitValue /\ [][NextValue]_vars

\* ------------------------------------------------------------------------
\* JsonFixerStrategy::new(cap).parse(input), phase by phase; the running
\* state [candidates, attempts, max_attempts] is kept as parser
\* ------------------------------------------------------------------------
\* The largest attempt cap a strategy is made with
MaxCap == 12

FixerTexts ==
  { <<LB, D1, CM, RB>>,                                 \* [1,]
    <<LC, LA, CL, D1, RC>>,                             \* {a:1}
    <<LC, LA, CL, D1, CM, RC>>,                         \* {a:1,}
    <<LC, LA, CL, D1, CM>>,                             \* {a:1,
    <<LC, LA, CL, LB, D1, CM>>,                         \* {a:[1,
    <<LC, LA, CL, QT, LA, NL, QT, CM>>,                 \* {a:"a<LF>",
    <<LC, LA, CL, QT, LA, NL, QT, CM, RC>>,             \* {a:"a<LF>",}
    <<LC, LA, CL, LA, CM>>,                             \* {a:a,
    <<LB, D1, CM, CM, D1, RB>>,                         \* [1,,1]
    <<LB, D1, RB>>,                                     \* [1]
    <<LA>> }                                            \* a

InitFixer ==
  /\ entry = "" /\ target = ""
  /\ input \in FixerTexts
  /\ pc = "individual"
  /\ \E cap \in 0..MaxCap : parser = FixerStart(cap)
  /\ driver = NoDriver
  /\ frames = << >> /\ ret = NoReturn

\* The loop over the individual fixes
FixerIndividual ==
  /\ pc = "individual"
  /\ parser' = RunIndividualFixes(individual_fixes, input, parser)
  /\ pc' = "combinations"
  /\ UNCHANGED <<entry, target, input, driver, frames, ret>>

\* The two- and three-fix combinations
FixerCombinations ==
  /\ pc = "combinations"
  /\ parser' = RunCombinations(fix_combinations, input, parser)
  /\ pc' = "final"
  /\ UNCHANGED <<entry, target, input, driver, frames, ret>>

\* The final attempt, and Ok(candidates)
FixerFinalPass ==
  /\ pc = "final"
  /\ parser' = JsonFixer_final_pass(input, parser)
  /\ pc' = "fixed"
  /\ UNCHANGED <<entry, target, input, driver, frames, ret>>

NextFixer == FixerIndividual \/ FixerCombinations \/ FixerFinalPass

SpecFixer == InitFixer /\ [][NextFixer]_vars

\* ------------------------------------------------------------------------
\* Step 0 of parse_multi_stage on its own: the deep-nesting extraction of an
\* inner JSON text wrapped in openers and closers
\* ------------------------------------------------------------------------
\* The wrapping depth of the deep inputs
DeepWrap == 100

Wrapped(open, n, inner) == Repeat(open, n) \o inner \o Repeat(CloserOf(open), n)

InnerTexts ==
  { <<D1>>,                                             \* 1
    <<QT, LB, QT>>,                                     \* "["
    <<LB, RB>>,                                         \* []
    <<LB, D1, RB>>,                                     \* [1]
    <<LC, QT, LA, QT, CL, D1, RC>>,                     \* {"a":1}
    <<LB, D1, CM, LB, D1, RB, RB>>,                     \* [1,[1]]
    <<LC, QT, LA, QT, CL, LB, D1, RB, RC>>,             \* {"a":[1]}
    <<LC, QT, LA, QT, CL, LC, QT, LA, QT, CL, D1, RC, RC>> }  \* {"a":{"a":1}}

WrapDepths ==
  ((MAX_NESTING_DEPTH - 1)..(MAX_NESTING_DEPTH + NestMargin)) \cup {DeepWrap}

NestingTexts ==
  { Wrapped(open, n, inner) : open \in {LB, LC}, n \in WrapDepths, inner \in InnerTexts }

InitNesting ==
  /\ entry = "" /\ target = ""
  /\ input \in NestingTexts
  /\ pc = "nesting"
  /\ parser = NotStarted
  /\ driver = NoDriver
  /\ frames = << >> /\ ret = NoReturn

\* let input_after_nesting = extract_from_deep_nesting(input, 50) or input
ExtractFromDeepNesting ==
  /\ pc = "nesting"
  /\ parser' = [NotStarted EXCEPT !.preprocessed =
                  UnwrapOr(extract_from_deep_nesting(input, MAX_NESTING_DEPTH), input)]
  /\ pc' = "extracted"
  /\ UNCHANGED <<entry, target, input, driver, frames, ret>>

NextNesting == ExtractFromDeepNesting

SpecNesting == InitNesting /\ [][NextNesting]_vars

\* ------------------------------------------------------------------------
\* EnumMatcher: match_string and its strategies
\* ------------------------------------------------------------------------
\* A variant is [name, description]; description is None or Some(text)
EnumVariant_new(name) == [name |-> name, description |-> None]
with_description(v, description) == [v EXCEPT !.description = Some(description)]

match_strings(v) ==
  IF v.description.some /\ Len(Trim(v.description.v)) > 0
  THEN <<v.name, v.description.v, v.name \o <<CL, SP>> \o v.description.v>>
  ELSE <<v.name>>

\* The candidates list, flattened in the order the loops visit it: one
\* [name, s] per match string of every variant
RECURSIVE CandidateEntries(_)
CandidateEntries(variants) ==
  IF Len(variants) = 0 THEN << >>
  ELSE LET ms == match_strings(variants[1]) IN
       [i \in 1..Len(ms) |-> [name |-> variants[1].name, s |-> ms[i]]]
         \o CandidateEntries(Tail(variants))

MapEntries(entries, F(_)) ==
  [i \in 1..Len(entries) |-> [name |-> entries[i].name, s |-> F(entries[i].s)]]

\* The first entry of the flattened list that satisfies Pred and has the
\* least Key among those that do (a stable sort keeps the insertion order)
FirstLeast(entries, Pred(_), Key(_)) ==
  IF \E i \in 1..Len(entries) : Pred(entries[i])
  THEN LET i == CHOOSE j \in 1..Len(entries) :
                  /\ Pred(entries[j])
                  /\ \A h \in 1..Len(entries) :
                       Pred(entries[h]) =>
                         \/ Key(entries[j]) < Key(entries[h])
                         \/ Key(entries[j]) = Key(entries[h]) /\ j <= h IN
       Some(entries[i].name)
  ELSE None

try_exact_match(inp, entries) ==
  FirstLeast(entries, LAMBDA e : e.s = inp, LAMBDA e : 0)

try_unaccented_match(inp, entries) ==
  FirstLeast(entries, LAMBDA e : remove_accents(e.s) = remove_accents(inp), LAMBDA e : 0)

\* str::contains
ContainsText(s, p) ==
  \E i \in 0..(Len(s) - Len(p)) : Slice(s, i, i + Len(p)) = p

try_substring_match(inp, entries) ==
  LET forward == FirstLeast(entries, LAMBDA e : ContainsText(inp, e.s),
                            LAMBDA e : 0 - ByteLen(e.s)) IN
  IF forward.some THEN forward
  ELSE FirstLeast(entries, LAMBDA e : ContainsText(e.s, inp), LAMBDA e : ByteLen(e.s))

\* One row of the matrix of levenshtein_distance from the row above it;
\* rows are 1-based sequences of len2 + 1 cells
RECURSIVE MatrixRow(_, _, _, _)
MatrixRow(above, c1, s2, row) ==
  IF Len(row) = Len(above) THEN row
  ELSE LET j == Len(row)
           cost == IF c1 = s2[j] THEN 0 ELSE 1 IN
       MatrixRow(above, c1, s2,
                 Append(row, Min(Min(above[j + 1] + 1, row[j] + 1), above[j] + cost)))

RECURSIVE MatrixRows(_, _, _)
MatrixRows(above, s1, s2) ==
  IF Len(s1) = 0 THEN above
  ELSE MatrixRows(MatrixRow(above, s1[1], s2, <<above[1] + 1>>), Tail(s1), s2)

levenshtein_distance(s1, s2) ==
  IF Len(s1) = 0 THEN Len(s2)
  ELSE IF Len(s2) = 0 THEN Len(s1)
  ELSE MatrixRows([j \in 1..(Len(s2) + 1) |-> j - 1], s1, s2)[Len(s2) + 1]

\* An accepting comparison that demands a distance below the threshold
WithinThresholdStrictly(best_distance, threshold) == best_distance < threshold

\* if best_distance <= threshold
WithinThreshold(best_distance, threshold) == best_distance <= threshold

EditThreshold(inp) == IF Len(inp) = 0 THEN 0 ELSE ByteLen(inp) \div 3

try_edit_distance_match(inp, entries) ==
  LET best == FirstLeast(entries, LAMBDA e : TRUE,
                         LAMBDA e : levenshtein_distance(inp, e.s)) IN
  IF ~best.some THEN None
  ELSE LET best_distance ==
             levenshtein_distance(inp,
               entries[CHOOSE i \in 1..Len(entries) :
                         \A h \in 1..Len(entries) :
                           levenshtein_distance(inp, entries[i].s)
                             <= levenshtein_distance(inp, entries[h].s)].s) IN
       IF WithinThreshold(best_distance, EditThreshold(inp)) THEN best ELSE None

UnknownVariant(variant) == [ok |-> FALSE, v |-> variant, by |-> "UnknownVariant"]
Matched(found, by) == [ok |-> TRUE, v |-> found.v, by |-> by]

\* EnumMatcher::match_string (inp is the source's input); by names the strategy that returned
match_string(variants, text) ==
  LET inp == Trim(text)
      candidates == CandidateEntries(variants)
      stripped_input == strip_punctuation(inp)
      stripped_candidates == MapEntries(candidates, strip_punctuation)
      lowercase_input == to_lowercase(stripped_input)
      lowercase_candidates == MapEntries(stripped_candidates, to_lowercase) IN
  IF try_exact_match(inp, candidates).some
  THEN Matched(try_exact_match(inp, candidates), "exact")
  ELSE IF try_unaccented_match(inp, candidates).some
  THEN Matched(try_unaccented_match(inp, candidates), "unaccented")
  ELSE IF try_exact_match(stripped_input, stripped_candidates).some
  THEN Matched(try_exact_match(stripped_input, stripped_candidates), "stripped")
  ELSE IF try_exact_match(lowercase_input, lowercase_candidates).some
  THEN Matched(try_exact_match(lowercase_input, lowercase_candidates), "lowercase")
  ELSE IF try_substring_match(lowercase_input, lowercase_candidates).some
  THEN Matched(try_substring_match(lowercase_input, lowercase_candidates), "substring")
  ELSE IF try_edit_distance_match(lowercase_input, lowercase_candidates).some
  THEN Matched(try_edit_distance_match(lowercase_input, lowercase_candidates), "levenshtein")
  ELSE UnknownVariant(inp)

\* The longest run of letters of an input
MaxEnumLen == 6

RECURSIVE TextsOver(_, _)
TextsOver(alphabet, n) ==
  IF n = 0 THEN {<< >>}
  ELSE LET shorter == TextsOver(alphabet, n - 1) IN
       shorter \cup { Append(t, c) : t \in shorter, c \in alphabet }

EnumTexts ==
  TextsOver({LA, LN}, MaxEnumLen)
    \cup { <<UA>> \o t : t \in TextsOver({LA, LN}, 2) }
    \cup { <<SP, LA, CM>> \o t : t \in TextsOver({LA, LN}, 2) }

Matchers ==
  { << >>,
    <<EnumVariant_new(<<LA, LN, LA, LN>>),                     \* anan
      EnumVariant_new(<<LN, LN, LA, LA, LA, LN>>)>>,           \* nnaaan
    <<EnumVariant_new(<<UA, LA, LA, LA, LA, LA>>),             \* Aaaaaa
      with_description(EnumVariant_new(<<LN, LN, LN>>),        \* nnn, "n,a n"
                       <<LN, CM, LA, SP, LN>>)>> }

InitEnum ==
  /\ entry = "" /\ target = ""
  /\ input \in EnumTexts
  /\ pc = "enum"
  /\ parser = NotStarted
  /\ driver \in Matchers
  /\ frames = << >> /\ ret = NoReturn

MatchString ==
  /\ pc = "enum"
  /\ parser' = match_string(driver, input)
  /\ pc' = "matched"
  /\ UNCHANGED <<entry, target, input, driver, frames, ret>>

NextEnum == MatchString

SpecEnum == InitEnum /\ [][NextEnum]_vars

\* ------------------------------------------------------------------------
\* One FlexibleParser shared by two threads.  parser holds the
\* StateMachineParser objects: the one stored in the shared parser's
\* StateMachineStrategy and the working copy of each thread; frames holds
\* the locals of each thread's call of parse.
\* ------------------------------------------------------------------------
Threads == {"t1", "t2"}

SharedTexts ==
  { <<LB, D1, CM, RB>>,                                 \* [1,]
    <<LB, D1, RB, LA>>,                                 \* [1]a
    <<LB, D1, RB>> }                                    \* [1]

StateMachineParser_new ==
  [stack |-> << >>, position |-> 0, in_string |-> FALSE, escaped |-> FALSE,
   candidates |-> << >>]

StateMachineParser_reset(st) == StateMachineParser_new

\* A parse that works on the strategy's own parser
working_copy_shared(t) == "shared"

\* let mut parser = self.parser.clone(): the object the call works on
working_copy(t) == t

Idle == [at |-> "idle", input |-> << >>, p |-> NotStarted]

\* parse_multi_stage on a parser nobody else uses
RECURSIVE parse_multi_stage(_)
parse_multi_stage(p) ==
  IF p.returned # "" THEN p
  ELSE IF p.next > Len(strategies) THEN after_strategies(p)
  ELSE parse_multi_stage(strategy_iteration(p, strategies))

InitShared ==
  /\ entry = "" /\ target = "" /\ input = << >>
  /\ pc = "shared"
  /\ parser = [o \in Threads \cup {"shared"} |-> StateMachineParser_new]
  /\ driver = NoDriver
  /\ frames = [t \in Threads |-> Idle]
  /\ ret = NoReturn

SharedUnchanged == UNCHANGED <<entry, target, input, pc, driver, ret>>

AfterIteration(p) == IF p.returned # "" THEN "parsed" ELSE "strategies"

\* parser.parse(text): step 0 to step 2 of parse_multi_stage
ThreadCall(t) ==
  /\ frames[t].at = "idle"
  /\ \E text \in SharedTexts :
       frames' = [frames EXCEPT ![t] = [at |-> "strategies", input |-> text,
                                        p |-> ParserStart(text)]]
  /\ UNCHANGED parser /\ SharedUnchanged

\* One iteration of the strategy loop on a strategy without fields
ThreadStrategy(t) ==
  /\ frames[t].at = "strategies"
  /\ frames[t].p.next <= Len(strategies)
  /\ strategies[frames[t].p.next] # "state_machine"
  /\ LET q == strategy_iteration(frames[t].p, strategies) IN
     frames' = [frames EXCEPT ![t].p = q, ![t].at = AfterIteration(q)]
  /\ UNCHANGED parser /\ SharedUnchanged

\* StateMachineStrategy::parse: let mut parser = self.parser.clone()
ThreadClone(t) ==
  /\ frames[t].at = "strategies"
  /\ frames[t].p.next <= Len(strategies)
  /\ strategies[frames[t].p.next] = "state_machine"
  /\ parser' = [parser EXCEPT ![working_copy(t)] = parser["shared"]]
  /\ frames' = [frames EXCEPT ![t].at = "cloned"]
  /\ SharedUnchanged

\* StateMachineParser::parse: self.reset()
ThreadReset(t) ==
  /\ frames[t].at = "cloned"
  /\ parser' = [parser EXCEPT ![working_copy(t)] = StateMachineParser_reset(@)]
  /\ frames' = [frames EXCEPT ![t].at = "running"]
  /\ SharedUnchanged

\* StateMachineParser::parse: one iteration of  while self.position < len
ThreadStep(t) ==
  /\ frames[t].at = "running"
  /\ parser[working_copy(t)].position < Len(frames[t].p.preprocessed)
  /\ parser' = [parser EXCEPT ![working_copy(t)] =
                  [StateMachine_step(@, frames[t].p.preprocessed[@.position + 1])
                     EXCEPT !.position = @ + 1]]
  /\ UNCHANGED frames /\ SharedUnchanged

\* StateMachineParser::parse after the loop, and the rest of the iteration
\* of the strategy loop
ThreadConvert(t) ==
  /\ frames[t].at = "running"
  /\ parser[working_copy(t)].position >= Len(frames[t].p.preprocessed)
  /\ parser' = [parser EXCEPT ![working_copy(t)] = StateMachine_close_all(@)]
  /\ LET q == strategy_returned(frames[t].p, strategies,
                convert_candidates(parser'[working_copy(t)].candidates)) IN
     frames' = [frames EXCEPT ![t].p = q, ![t].at = AfterIteration(q)]
  /\ SharedUnchanged

\* parse_multi_stage after the strategy loop
ThreadAfter(t) ==
  /\ frames[t].at = "strategies"
  /\ frames[t].p.next > Len(strategies)
  /\ frames' = [frames EXCEPT ![t].p = after_strategies(@), ![t].at = "parsed"]
  /\ UNCHANGED parser /\ SharedUnchanged

\* The call returns its candidates
ThreadReturn(t) ==
  /\ frames[t].at = "parsed"
  /\ frames' = [frames EXCEPT ![t] = Idle]
  /\ UNCHANGED parser /\ SharedUnchanged

NextShared ==
  \E t \in Threads :
    \/ ThreadCall(t)
    \/ ThreadStrategy(t)
    \/ ThreadClone(t)
    \/ ThreadReset(t)
    \/ ThreadStep(t)
    \/ ThreadConvert(t)
    \/ ThreadAfter(t)
    \/ ThreadReturn(t)

SpecShared == InitShared /\ [][NextShared]_vars

\* ------------------------------------------------------------------------
\* HeuristicStrategy::parse and HeuristicExtractor::extract on their own,
\* on texts that hold characters of more than one byte
\* ------------------------------------------------------------------------
\* The longest text before and behind the JSON of an input
MaxAround == 2

HeuristicTexts ==
  { before \o json \o behind :
      before \in TextsOver({LA, EU}, MaxAround),
      json \in { <<LB, D1, RB>>,                        \* [1]
                 <<LC, QT, LA, QT, CL, D1, RC>>,        \* {"a":1}
                 <<LB, QT, EU, QT, RB>>,                \* ["<U+20AC>"]
                 <<LB, D1>> },                          \* [1
      behind \in TextsOver({EU}, MaxAround) }

\* The substrings a call takes, in order, up to the first that panics
RECURSIVE SubstringsTaken(_, _)
SubstringsTaken(text, bs) ==
  IF Len(bs) = 0 THEN << >>
  ELSE LET taken == substring_of(text, bs[1].start, bs[1].end) IN
       IF taken.ok THEN <<taken.v>> \o SubstringsTaken(text, Tail(bs)) ELSE << >>

InitHeuristic ==
  /\ entry = "" /\ target = ""
  /\ input \in HeuristicTexts
  /\ pc = "heuristic"
  /\ parser = NotStarted
  /\ driver = NoDriver
  /\ frames = << >> /\ ret = NoReturn

\* HeuristicStrategy::parse(input); driver keeps the substrings it took and
\* whether it panicked
HeuristicParse ==
  /\ pc = "heuristic"
  /\ driver' = [panicked |-> Heuristic_panics(input),
                substrings |-> SubstringsTaken(input, KeptBoundaries(input))]
  /\ parser' = [NotStarted EXCEPT !.all_candidates =
                  IF Heuristic_panics(input) THEN << >> ELSE Heuristic_parse(input)]
  /\ pc' = "heuristic_parsed"
  /\ UNCHANGED <<entry, target, input, frames, ret>>

\* HeuristicExtractor::extract(input)
HeuristicExtract ==
  /\ pc = "heuristic"
  /\ driver' = [panicked |-> Heuristic_panics(input),
                substrings |-> SubstringsTaken(input, KeptBoundaries(input))]
  /\ parser' = [NotStarted EXCEPT !.all_candidates =
                  IF Heuristic_panics(input) THEN << >>
                  ELSE HeuristicExtractor_extract(input)]
  /\ pc' = "heuristic_extracted"
  /\ UNCHANGED <<entry, target, input, frames, ret>>

NextHeuristic == HeuristicParse \/ HeuristicExtract

SpecHeuristic == InitHeuristic /\ [][NextHeuristic]_vars

\* ------------------------------------------------------------------------
\* One top-level coercion of a value into a struct type
\* ------------------------------------------------------------------------
\* The cap of a context made by CoercionContext::with_max_depth
SmallDepth == 2

RECURSIVE Times(_, _)
Times(s, n) == IF n = 0 THEN << >> ELSE s \o Times(s, n - 1)

\* {"n":[ ... {"n":[]} ... ]} with d objects inside each other
NodeText(d) ==
  Times(<<LC, QT, LN, QT, CL, LB>>, d - 1)
    \o <<LC, QT, LN, QT, CL, LB, RB, RC>> \o Times(<<RB, RC>>, d - 1)

\* [1,[ ... [1,[]] ... ]] with d arrays of two elements inside each other
TreeText(d) ==
  Times(<<LB, D1, CM, LB>>, d - 1) \o <<LB, D1, CM, LB, RB, RB>> \o Times(<<RB, RB>>, d - 1)

CoerceTexts ==
  { <<D1>>,                                                   \* 1
    <<QT, D1, QT>>,                                           \* "1"
    <<LB, RB>>,                                               \* []
    <<LB, D1, RB>>,                                           \* [1]
    <<LB, D1, CM, D1, RB>>,                                   \* [1,1]
    <<LB, QT, LA, QT, CM, QT, LA, QT, RB>>,                   \* ["a","a"]
    <<LC, QT, LA, QT, CL, D1, CM, QT, LN, QT, CL, D1, RC>>,   \* {"a":1,"n":1}
    <<LC, QT, LA, QT, CL, D1, RC>>,                           \* {"a":1}
    <<LC, QT, LA, QT, CL, D1, CM, QT, LN, QT, CL, D1, CM,
      QT, LA, LA, QT, CL, D1, RC>>,                           \* {"a":1,"n":1,"aa":1}
    <<LC, QT, LA, QT, CL, QT, D1, QT, CM, QT, LN, QT, CL, D1, RC>>,  \* {"a":"1","n":1}
    <<LC, QT, LA, QT, CL, D1, CM, QT, LN, QT, CL, QT, LA, QT, RC>>,  \* {"a":1,"n":"a"}
    <<LC, QT, LA, QT, CL, D1, CM, QT, LN, QT, CL, LB, RB, RC>>,      \* {"a":1,"n":[]}
    <<LC, QT, LN, QT, CL, LB, RB, CM, QT, LA, LA, QT, CL, D1, RC>>,  \* {"n":[],"aa":1}
    <<LC, QT, UA, QT, CL, D1, CM, QT, LN, QT, CL, D1, RC>>,   \* {"A":1,"n":1}
    <<LC, QT, LA, QT, CL, D1, CM, QT, LA, LA, QT, CL, D1, RC>>,      \* {"a":1,"aa":1}
    <<LC, QT, LA, QT, CL, QT, LA, QT, RC>>,                   \* {"a":"a"}
    <<LC, QT, LA, QT, CL, D1, CM, QT, LA, LA, QT, CL, D1, CM,
      QT, LN, QT, CL, QT, LA, QT, RC>>,                       \* {"a":1,"aa":1,"n":"a"}
    <<LC, QT, LA, QT, CL, LB, D1, RB, CM, QT, LN, QT, CL, QT, D1, QT, RC>>,  \* {"a":[1],"n":"1"}
    <<QT, LA, QT>>,                                           \* "a"
    <<LC, QT, D1, QT, CL, D1, CM, QT, UA, QT, CL, QT, D1, QT, CM,
      QT, LA, QT, CL, QT, LA, QT, RC>>,                       \* {"1":1,"A":"1","a":"a"}
    <<LB, D1, CM, QT, LA, QT, RB>>,                           \* [1,"a"]
    <<LB, QT, LA, QT, CM, D1, RB>>,                           \* ["a",1]
    <<LB, D1, CM, D1, CM, D1, RB>> }                          \* [1,1,1]
    \cup {NodeText(d) : d \in 1..(SmallDepth + 1)}
    \cup {TreeText(d) : d \in 1..(SmallDepth + 1)}

\* The values that are coerced: the texts parsed, and the float 1.0
CoerceValues == {from_str(text).v : text \in CoerceTexts} \cup {JFloat(<<D1>>)}

\* The types values are coerced into, and the implementations of a mode
CoerceTargets == StructTypes \cup LeafTypes \cup UnionTypes

Ops(T, mode) ==
  IF T \notin UnionTypes THEN {OpOf(T, mode)}
  ELSE IF mode = "strict" THEN {"Union::try_deserialize"}
  ELSE {"Union::deserialize", "UnionDeserializer::deserialize"}

\* The contexts a top-level call is made with; the last one has been used
\* for an earlier coercion, which recorded a transformation on it
Contexts(T, v) ==
  { CoercionContext_new,
    CoercionContext_add_transformation(CoercionContext_new, "StringToNumber"),
    CoercionContext_with_max_depth(SmallDepth),
    with_visited_strict(CoercionContext_new, T, v),
    with_visited_lenient(CoercionContext_new, T, v) }

InitCoerce ==
  /\ entry = "" /\ input = << >>
  /\ target \in CoerceTargets
  /\ pc = "coercing"
  /\ parser = NotStarted
  /\ \E v \in CoerceValues, mode \in {"strict", "lenient"} :
       \E ctx \in Contexts(target, v), op \in Ops(target, mode) :
         /\ frames = <<NewFrame(op, target, v, ctx)>>
         /\ driver = [NoDriver EXCEPT !.ranked = <<FlexValue_new(v, SrcDirect)>>,
                                      !.pass = mode]
  /\ ret = NoReturn

Machine == [frames |-> frames, ret |-> ret, overflow |-> FALSE]

Running(op, phases) ==
  /\ pc = "coercing"
  /\ Len(frames) > 0
  /\ Top(Machine).op = op
  /\ Top(Machine).phase \in phases

Becomes(m) ==
  /\ ~m.overflow
  /\ frames' = m.frames
  /\ ret' = m.ret
  /\ UNCHANGED <<entry, target, input, pc, parser, driver>>

TryDeserialize ==
  /\ Running("Struct::try_deserialize", {"enter", "fields"})
  /\ Becomes(StructDeserializer_try_deserialize(Machine, Top(Machine)))

Deserialize ==
  /\ Running("Struct::deserialize", {"enter"})
  /\ Becomes(StructDeserializer_deserialize(Machine, Top(Machine)))

TryStrictMatch ==
  /\ Running("Struct::deserialize", {"try_strict_match"})
  /\ Becomes(try_strict_match(Machine, Top(Machine)))

TryLenientMatch ==
  /\ Running("Struct::deserialize", {"try_lenient_match"})
  /\ Becomes(try_lenient_match(Machine, Top(Machine)))

TrySingleFieldCoercion ==
  /\ Running("Struct::deserialize", {"try_single_field_coercion"})
  /\ Becomes(try_single_field_coercion(Machine, Top(Machine)))

TryArrayToStructCoercion ==
  /\ Running("Struct::deserialize", {"try_array_to_struct_coercion"})
  /\ Becomes(try_array_to_struct_coercion(Machine, Top(Machine)))

VecTryDeserialize ==
  /\ Running("Vec::try_deserialize", {"enter"})
  /\ Becomes(VecOfStruct_try_deserialize(Machine, Top(Machine)))

VecDeserialize ==
  /\ Running("Vec::deserialize", {"enter"})
  /\ Becomes(VecOfStruct_deserialize(Machine, Top(Machine)))

\* <T as LlmDeserialize> of a leaf type, called by the entry point
Leaf_deserialize(m, f) ==
  [frames |-> << >>,
   ret |-> PrimitiveReturn(f.type, IF f.op = "Leaf::try_deserialize" THEN "strict" ELSE "lenient",
                           f.value, f.ctx),
   overflow |-> FALSE]

LeafDeserialize ==
  /\ pc = "coercing"
  /\ Len(frames) > 0
  /\ Top(Machine).op \in {"Leaf::try_deserialize", "Leaf::deserialize"}
  /\ Becomes(Leaf_deserialize(Machine, Top(Machine)))

UnionPhases == {"enter", "strict1", "strict2", "lenient1", "lenient2", "again"}

UnionTryDeserialize ==
  /\ Running("Union::try_deserialize", {"enter"})
  /\ Becomes(Union_try_deserialize(Machine, Top(Machine)))

UnionDeserialize ==
  /\ Running("Union::deserialize", UnionPhases)
  /\ Becomes(Union_deserialize(Machine, Top(Machine)))

UnionDeserializerDeserialize ==
  /\ Running("UnionDeserializer::deserialize", UnionPhases)
  /\ Becomes(UnionDeserializer_deserialize(Machine, Top(Machine)))

\* The activation on top of the stack takes its next step
StepOf(m) ==
  LET f == Top(m) IN
  CASE f.op = "Struct::try_deserialize" -> StructDeserializer_try_deserialize(m, f)
    [] f.op = "Union::try_deserialize" -> Union_try_deserialize(m, f)
    [] f.op = "Union::deserialize" -> Union_deserialize(m, f)
    [] f.op = "UnionDeserializer::deserialize" -> UnionDeserializer_deserialize(m, f)
    [] f.op \in {"Leaf::try_deserialize", "Leaf::deserialize"} -> Leaf_deserialize(m, f)
    [] f.op = "Vec::try_deserialize" -> VecOfStruct_try_deserialize(m, f)
    [] f.op = "Vec::deserialize" -> VecOfStruct_deserialize(m, f)
    [] f.phase = "enter" -> StructDeserializer_deserialize(m, f)
    [] f.phase = "try_strict_match" -> try_strict_match(m, f)
    [] f.phase = "try_lenient_match" -> try_lenient_match(m, f)
    [] f.phase = "try_single_field_coercion" -> try_single_field_coercion(m, f)
    [] f.phase = "try_array_to_struct_coercion" -> try_array_to_struct_coercion(m, f)

\* A call finds no room on the call stack: the process is aborted
StackOverflow ==
  /\ pc = "coercing"
  /\ Len(frames) > 0
  /\ StepOf(Machine).overflow
  /\ pc' = "aborted"
  /\ UNCHANGED <<entry, target, input, parser, driver, frames, ret>>

\* parse_llm_with_candidates on Some(value) or Ok(value): the transformations
\* of the context are merged into the winning candidate
RECURSIVE merge_transformations(_, _)
merge_transformations(candidate, transformations) ==
  IF Len(transformations) = 0 THEN candidate
  ELSE merge_transformations(add_transformation(candidate, transformations[1]),
                             Tail(transformations))

returned_ok(d, r) ==
  [d EXCEPT !.ranked = [@ EXCEPT ![d.idx] = merge_transformations(@, r.ctx.transformations)],
            !.result = OkResult(r.by.out, d.idx, d.pass)]

\* The top-level call has returned
Finish ==
  /\ pc = "coercing"
  /\ frames = << >>
  /\ pc' = "returned"
  /\ driver' = IF ret.ok THEN returned_ok(driver, ret) ELSE driver
  /\ UNCHANGED <<entry, target, input, parser, frames, ret>>

NextCoerce ==
  \/ TryDeserialize
  \/ Deserialize
  \/ TryStrictMatch
  \/ TryLenientMatch
  \/ TrySingleFieldCoercion
  \/ TryArrayToStructCoercion
  \/ VecTryDeserialize
  \/ VecDeserialize
  \/ LeafDeserialize
  \/ UnionTryDeserialize
  \/ UnionDeserialize
  \/ UnionDeserializerDeserialize
  \/ StackOverflow
  \/ Finish

SpecCoerce == InitCoerce /\ [][NextCoerce]_vars


\* ------------------------------------------------------------------------
\* Properties of the calls
\* ------------------------------------------------------------------------
\* serde_json::from_str::<T>(s), the reference JSON parser
Reference(T, s) ==
  LET Typed(r) ==
        IF ~r.ok THEN CErr("syntax")
        ELSE IF T = "i64" /\ r.v.t # "num" THEN CErr("invalid type")
        ELSE COk(r.v) IN
  Typed(from_str(s))

Winner == driver.ranked[driver.result.winner]

HasInvisible(s) == \E i \in 1..Len(s) : ~IsVisible(s[i])

WithinNestingLimit(s) ==
  /\ NestingDepths(Trim(s)).max_brace_depth <= MAX_NESTING_DEPTH
  /\ NestingDepths(Trim(s)).max_bracket_depth <= MAX_NESTING_DEPTH

\* A string whose content is itself JSON
WrapsJson(v) == v.t = "str" /\ from_str(v.s).ok

MatchesReference ==
  /\ driver.result.kind = "Ok"
  /\ driver.result.value = Reference(target, input).v
  /\ Winner.transformations = << >>
  /\ score_candidate(Winner) = 0

C1_Covered ==
  /\ WithinNestingLimit(input)
  /\ ~HasInvisible(input)
  /\ Reference(target, input).ok
  /\ ~HasInvisible(to_string(Reference(target, input).v))
  /\ ~WrapsJson(Reference(target, input).v)

StrictMatches(j) == Llm_try_deserialize(target, driver.ranked[j]).some
LenientCoerces(j) == Llm_deserialize(target, driver.ranked[j]).ok
Ranked == 1..Len(driver.ranked)
BestStrict == CHOOSE j \in Ranked : StrictMatches(j) /\ \A i \in 1..(j - 1) : ~StrictMatches(i)
BestLenient == CHOOSE j \in Ranked : LenientCoerces(j) /\ \A i \in 1..(j - 1) : ~LenientCoerces(i)

LenientOnlyAfterStrict ==
  \A k \in 1..Len(driver.attempts) :
    driver.attempts[k].pass = "lenient" =>
      \A j \in Ranked :
        /\ \E i \in 1..(k - 1) : driver.attempts[i] = [pass |-> "strict", idx |-> j]
        /\ ~StrictMatches(j)

BestMatchReturned ==
  IF \E j \in Ranked : StrictMatches(j)
  THEN driver.result =
         OkResult(Llm_try_deserialize(target, driver.ranked[BestStrict]).v, BestStrict, "strict")
  ELSE (\E j \in Ranked : LenientCoerces(j)) =>
       driver.result =
         OkResult(Llm_deserialize(target, driver.ranked[BestLenient]).v, BestLenient, "lenient")

\* C2: parse_llm_with_candidates attempts the lenient deserialize on a
\* candidate only after the strict try_deserialize has failed on every ranked
\* candidate; the result is the strict match of the best-ranked candidate
\* that matches strictly, else the lenient result of the best-ranked
\* candidate that coerces.
C2_StrictPassBeforeLenient ==
  entry \in LlmEntries =>
    /\ LenientOnlyAfterStrict
    /\ (pc = "done" /\ Len(driver.ranked) > 0) => BestMatchReturned

C2_Witness ==
  /\ pc = "done"
  /\ entry = "parse_llm_with_candidates"
  /\ Len(driver.ranked) > 1
  /\ driver.result.kind = "Ok"
  /\ driver.result.mode = "lenient"
  /\ driver.result.winner > 1

\* C3: an entry point returns NoCandidates only when the parser produced no
\* candidate at all; when candidates exist and none coerces, it returns
\* DeserializeFailed carrying an observed deserialization error.
C3_ErrorsTellWhy ==
  pc = "done" =>
    /\ driver.result.kind = "NoCandidates" => Len(parser.all_candidates) = 0
    /\ (Len(parser.all_candidates) > 0 /\ driver.result.kind # "Ok") =>
         /\ driver.result.kind = "DeserializeFailed"
         /\ \E i \in 1..Len(driver.errors) : driver.errors[i] = driver.result.error

IsPrefix(a, b) == Len(a) <= Len(b) /\ \A i \in 1..Len(a) : a[i] = b[i]

StatedOrder ==
  <<"multiple_objects", "direct_json", "markdown", "yaml", "json_fixer", "heuristic",
    "raw_primitive", "state_machine">>

SortedOrder ==
  <<"multiple_objects", "direct_json", "markdown", "json_fixer", "yaml", "heuristic",
    "raw_primitive", "state_machine">>

RanToTheEnd == parser.returned \in {"strategies", "nothing_extracted", "extract_clean_repair"}

\* C4 as stated: the strategies are invoked in the order MultipleObjects,
\* DirectJson, Markdown, Yaml, JsonFixer, Heuristic, RawPrimitive,
\* StateMachine.
C4_AsStated == IsPrefix(parser.invoked, StatedOrder)

\* C4: the strategies are invoked in the order MultipleObjects, DirectJson,
\* Markdown, JsonFixer, Yaml, Heuristic, RawPrimitive, StateMachine (all of
\* them unless a strategy ends the loop early); MultipleObjects runs before
\* DirectJson and JsonFixer before Yaml.
C4_InvokedInSortedOrder ==
  /\ IsPrefix(parser.invoked, SortedOrder)
  /\ RanToTheEnd => parser.invoked = SortedOrder

C4_Witness ==
  /\ pc = "done"
  /\ Len(parser.invoked) = Len(construction_order)
  /\ parser.invoked[4] = "json_fixer" /\ Len(parser.produced[4]) > 0
  /\ parser.invoked[5] = "yaml"

ShortCircuits(k) ==
  /\ HasSource(parser.produced[k], "Direct") \/ HasSource(parser.produced[k], "Yaml")
  /\ \A j \in 1..(k - 1) :
       Len(parser.produced[j]) > 0 => parser.invoked[j] = "multiple_objects"

\* C5: once a strategy produces a Direct or Yaml candidate, no strategy
\* other than MultipleObjects having produced one before, none of the
\* remaining strategies is run, and a MultiJsonArray candidate produced
\* earlier is still among the candidates returned.
C5_ShortCircuit ==
  \A k \in 1..Len(parser.produced) :
    ShortCircuits(k) =>
      /\ Len(parser.invoked) = k
      /\ parser.returned = "short_circuit"
      /\ \A j \in 1..(k - 1) :
           HasSource(parser.produced[j], "MultiJsonArray") =>
             HasSource(parser.all_candidates, "MultiJsonArray")

\* C6: every candidate returned with source Direct has as its value the
\* strict JSON parse of the whole pre-cleaned input.
C6_DirectIsWholeInput ==
  parser.returned # "" =>
    \A i \in 1..Len(parser.all_candidates) :
      parser.all_candidates[i].source.kind = "Direct" =>
        /\ from_str(parser.preprocessed).ok
        /\ parser.all_candidates[i].value = from_str(parser.preprocessed).v

ScoresOf(cs) == {score_candidate(cs[i]) : i \in 1..Len(cs)}

WithScore(cs, s) ==
  LET Scored(c) == score_candidate(c) = s IN SelectSeq(cs, Scored)

\* C7: rank_candidates returns a permutation of its input in order of
\* non-decreasing score, in which the candidates of equal score keep the
\* order they were inserted in.
C7_StableRanking ==
  pc = "ranked" =>
    /\ Len(driver.ranked) = Len(parser.all_candidates)
    /\ \A i \in 1..(Len(driver.ranked) - 1) :
         score_candidate(driver.ranked[i]) <= score_candidate(driver.ranked[i + 1])
    /\ \A s \in ScoresOf(driver.ranked) \cup ScoresOf(parser.all_candidates) :
         WithScore(driver.ranked, s) = WithScore(parser.all_candidates, s)

C7_Witness ==
  /\ pc = "ranked"
  /\ \E i, j \in 1..Len(parser.all_candidates) :
       /\ i < j
       /\ score_candidate(parser.all_candidates[i]) > score_candidate(parser.all_candidates[j])
  /\ \E i, j \in 1..Len(parser.all_candidates) :
       /\ i < j
       /\ score_candidate(parser.all_candidates[i]) = score_candidate(parser.all_candidates[j])
       /\ parser.all_candidates[i] # parser.all_candidates[j]

IsStructFrame(f) == f.op \in {"Struct::try_deserialize", "Struct::deserialize"}

Reentered(j) ==
  \E i \in 1..(j - 1) :
    /\ frames[i].op = frames[j].op
    /\ frames[i].type = frames[j].type
    /\ frames[i].value = frames[j].value

Visited(f) ==
  <<f.type, f.value>> \in
    (IF f.op = "Struct::try_deserialize" THEN f.ctx.visited_for_strict
     ELSE f.ctx.visited_for_lenient)

\* C8: when coercing a value into a struct type leads to coercing the same
\* value into the same type again in the same mode, the inner attempt goes
\* no further than its entry, and an object met again under a context that
\* has it as visited fails with CircularReference.
C8_CycleGuard ==
  /\ \A j \in 1..Len(frames) :
       (IsStructFrame(frames[j]) /\ Reentered(j)) => frames[j].phase = "enter"
  /\ (/\ ret.set
      /\ IsStructFrame(ret.by)
      /\ ret.by.value.t = "obj"
      /\ Visited(ret.by)
      /\ ret.by.ctx.depth < ret.by.ctx.max_depth)
       => (~ret.ok /\ ret.err = "CircularReference")

Admitted == {j \in 1..Len(frames) : IsStructFrame(frames[j]) /\ frames[j].phase # "enter"}

\* C9: in a top-level coercion the struct entries inside each other never
\* outnumber the context's depth cap, and the coercion is not aborted.
C9_DepthGuard ==
  /\ pc # "aborted"
  /\ (Len(frames) > 0 => Cardinality(Admitted) <= frames[1].ctx.max_depth)

RECURSIVE StrictlyCoerces(_, _)
StrictlyCoerces(T, v) ==
  CASE T = "i64" -> v.t = "num"
    [] T \in StructTypes ->
         /\ v.t = "obj"
         /\ {v.items[i].s : i \in 1..Len(v.items)}
              = {Fields(T)[i].name : i \in 1..Len(Fields(T))}
         /\ \A i \in 1..Len(Fields(T)) :
              StrictlyCoerces(Fields(T)[i].type_name, MapGet(v.items, Fields(T)[i].name))
    [] OTHER ->
         /\ v.t = "arr"
         /\ \A i \in 1..Len(v.items) : StrictlyCoerces(ElementType(T), v.items[i])

StrictStructSuccess ==
  /\ ret.set
  /\ ret.ok
  /\ \/ ret.by.op = "Struct::try_deserialize"
     \/ ret.by.op = "Struct::deserialize" /\ ret.by.phase = "try_strict_match"

\* C10: a strict struct coercion succeeds only on an object whose keys are
\* exactly the declared field names, optional fields included, and whose
\* fields all coerce strictly; it records no transformation.
C10_StrictIsExact ==
  StrictStructSuccess =>
    /\ StrictlyCoerces(ret.by.type, ret.by.value)
    /\ ret.by.transformations = << >>
    /\ ret.ctx = ret.by.ctx

C10_Witness ==
  /\ StrictStructSuccess
  /\ ret.by.type = "Pair"
  /\ Len(ret.by.value.items) = Len(Fields("Pair"))

Range(xs) == {xs[i] : i \in 1..Len(xs)}

\* The lenient coercion of an object into a struct has just returned
LenientObjectReturn ==
  /\ ret.set
  /\ ret.by.op = "Struct::deserialize"
  /\ ret.by.value.t = "obj"

GuardErrors == {"DepthLimitExceeded", "CircularReference"}

\* C11: lenient object-to-struct matching returns an error only when a
\* guard trips on entry, when a required field is found at no key of the
\* object (MissingField), or when the coercion of a required field fails; so
\* an optional field that is absent or does not coerce, and extra keys,
\* never make it fail.
C11_LenientErrors ==
  (LenientObjectReturn /\ ~ret.ok) =>
    \/ /\ ret.by.phase = "enter"
       /\ ret.err \in GuardErrors
    \/ /\ ret.by.phase = "try_lenient_match"
       /\ ret.by.k <= Len(Fields(ret.by.type))
       /\ ~Fields(ret.by.type)[ret.by.k].is_optional
       /\ \/ /\ ~ret.by.waiting
             /\ ret.err = "MissingField"
             /\ ~find_in_object(Fields(ret.by.type)[ret.by.k].name, ret.by.value.items).some
          \/ /\ ret.by.waiting
             /\ find_in_object(Fields(ret.by.type)[ret.by.k].name, ret.by.value.items).some
             /\ ret.err # ""

\* A Pair is built from {"a":1,"aa":1,"n":"a"}: the optional n does not
\* coerce and aa is an extra key
C11_Witness ==
  /\ LenientObjectReturn
  /\ ret.ok
  /\ ret.by.type = "Pair"
  /\ MapHas(ret.by.value.items, <<LN>>)
  /\ DefaultValueInserted(<<LN>>) \in Range(ret.by.transformations)
  /\ ExtraKey(<<LA, LA>>) \in Range(ret.by.transformations)

\* parse_llm_with_candidates has returned Ok through the lenient matching
\* of an object against a struct
LenientMatchWon ==
  /\ pc = "returned"
  /\ driver.result.kind = "Ok"
  /\ LenientObjectReturn
  /\ ret.by.phase = "try_lenient_match"

\* C12: when parse_llm_with_candidates succeeds through lenient
\* object-to-struct matching, every transformation the matching recorded
\* (FieldNameCaseChanged, DefaultValueInserted, ExtraKey) is in the log of
\* the winning candidate.
C12_MatchingIsLogged ==
  LenientMatchWon =>
    \A t \in Range(ret.by.transformations) : t \in Range(Winner.transformations)

\* The lenient coercion of an array into a struct has just returned
LenientArrayReturn ==
  /\ ret.set
  /\ ret.by.op = "Struct::deserialize"
  /\ ret.by.value.t = "arr"

\* What the returned struct and its transformations say of field i (1-based)
\* when element i of the array was assigned to it
FieldOutcome(i) ==
  LET field == Fields(ret.by.type)[i]
      arr == ret.by.value.items
      recorded == Range(ret.by.transformations)
      out == ret.by.out.items
      IsLeaf == field.type_name \in LeafTypes
      Coerced == LeafResult(field.type_name, "lenient", arr[i]) IN
  /\ MapHas(out, field.name)
  /\ IF i > Len(arr)
     THEN /\ field.is_optional
          /\ DefaultValueInserted(field.name) \in recorded
          /\ MapGet(out, field.name) = JNull
     ELSE \/ /\ FirstMatch(i - 1, Len(arr)) \in recorded
             /\ IsLeaf => (Coerced.ok /\ MapGet(out, field.name) = Coerced.v)
          \/ /\ field.is_optional
             /\ DefaultButHadUnparseableValue(field.name) \in recorded
             /\ MapGet(out, field.name) = JNull
             /\ IsLeaf => ~Coerced.ok

AllFieldOutcomes ==
  /\ \A i \in 1..Len(Fields(ret.by.type)) : FieldOutcome(i)
  /\ Len(ret.by.transformations) = Len(Fields(ret.by.type))
  /\ Range(ret.by.transformations) \subseteq Range(ret.ctx.transformations)

\* C13 as stated: for a struct of N >= 1 fields, R of them required, the
\* lenient coercion of an array of length >= R assigns element i to field
\* i, with FirstMatch, DefaultValueInserted and
\* DefaultButHadUnparseableValue recorded as the claim says.
C13_AsStated ==
  ( /\ LenientArrayReturn
    /\ Len(Fields(ret.by.type)) >= 1
    /\ Len(ret.by.value.items) >= RequiredCount(Fields(ret.by.type))
    /\ ret.ok ) => AllFieldOutcomes

\* C13, amended: for a struct of N >= 2 fields, the lenient coercion of an
\* array succeeds exactly when every required field has an element at its
\* position that coerces; it then assigns element i to field i, recording
\* FirstMatch{index: i, total: len} for each element that coerces,
\* DefaultValueInserted for each optional field without an element and
\* DefaultButHadUnparseableValue for each optional field whose element does
\* not coerce.
C13_PositionalArray ==
  (LenientArrayReturn /\ Len(Fields(ret.by.type)) >= 2) =>
    /\ ret.ok => AllFieldOutcomes
    /\ ~ret.ok =>
         \E i \in 1..Len(Fields(ret.by.type)) :
           /\ ~Fields(ret.by.type)[i].is_optional
           /\ \/ i > Len(ret.by.value.items)
              \/ ret.by.waiting /\ ret.by.k = i

\* A Pair is built from [1,"a"]: a takes element 0, n is defaulted
C13_Witness ==
  /\ LenientArrayReturn
  /\ ret.ok
  /\ ret.by.type = "Pair"
  /\ ret.by.transformations = <<FirstMatch(0, 2), DefaultButHadUnparseableValue(<<LN>>)>>
  /\ ret.by.out = JObj(<<JKv(<<LA>>, JNum(<<D1>>)), JKv(<<LN>>, JNull)>>)

UnionOps == {"Union::deserialize", "UnionDeserializer::deserialize"}

\* The lenient deserialize of a union has just returned
UnionReturn == ret.set /\ ret.by.op \in UnionOps

\* Variant j of union U matches the value strictly
VariantCoercesStrictly(U, j, v) ==
  IF Variants(U)[j] \in LeafTypes THEN LeafResult(Variants(U)[j], "strict", v).ok
  ELSE StrictlyCoerces(Variants(U)[j], v)

MatchedStrictly(matches) == {j \in 1..Len(matches) : matches[j].mode = "strict"}
MatchedLeniently(matches) == {j \in 1..Len(matches) : matches[j].mode = "lenient"}

\* C14: a union coerces a variant leniently only if no variant matched
\* strictly; whenever try_deserialize of some variant succeeds on the value,
\* the union returns a strict match of score 0 and no coerced variant.
C14_StrictBeforeLenient ==
  /\ \A i \in 1..Len(frames) :
       (frames[i].op \in UnionOps /\ frames[i].phase \in {"lenient1", "lenient2", "again"}) =>
         /\ MatchedStrictly(frames[i].matches) = {}
         /\ \A j \in 1..2 : ~VariantCoercesStrictly(frames[i].type, j, frames[i].value)
  /\ (UnionReturn /\ \E j \in 1..2 : VariantCoercesStrictly(ret.by.type, j, ret.by.value)) =>
       /\ ret.ok
       /\ MatchedLeniently(ret.by.matches) = {}
       /\ \E j \in MatchedStrictly(ret.by.matches) :
            /\ ret.by.matches[j].variant = ret.by.winner
            /\ ret.by.matches[j].score = 0
            /\ VariantCoercesStrictly(ret.by.type, ret.by.winner, ret.by.value)

\* IntOrString from "1": the string matches String strictly, though it
\* would coerce into the first variant, i64
C14_Witness ==
  /\ UnionReturn
  /\ ret.ok
  /\ ret.by.type = "IntOrString"
  /\ ret.by.winner = 2
  /\ MatchedStrictly(ret.by.matches) # {}
  /\ LeafResult("i64", "lenient", ret.by.value).ok
  /\ ret.by.out = JStr(<<D1>>)

UnionMatchesIn(transformations) ==
  {i \in 1..Len(transformations) : KindOf(transformations[i]) = "UnionMatch"}

\* C15: after a successful union coercion the context has gained exactly
\* one UnionMatch, whose index is the position of the winning variant in
\* the declared variant list and whose candidates are the variants in
\* declaration order.
C15_UnionMatchRecorded ==
  (UnionReturn /\ ret.ok) =>
    /\ Cardinality(UnionMatchesIn(Gained(ret.by.ctx, ret.ctx))) = 1
    /\ UnionMatch(ret.by.winner - 1, Variants(ret.by.type))
         \in Range(Gained(ret.by.ctx, ret.ctx))

\* The penalties of the transformations the coercion of a match recorded
RecordedScore(match) == SumOver(Transformation_penalty, match.transformations)

\* C16: when both variants of a union deserialize, the one of lower score
\* wins, and on equal score the one the heuristics prefer (no
\* SingleToArray, no ObjectFromMarkdown, fewer ArrayItemParseErrors among
\* lists; then no ImpliedKey; then not all defaults; then no JsonToString).
C16_BestVariantWins ==
  (UnionReturn /\ ret.ok /\ Len(ret.by.matches) = 2) =>
    LET a == ret.by.matches[1]
        b == ret.by.matches[2] IN
    /\ RecordedScore(a) < RecordedScore(b) => ret.by.winner = a.variant
    /\ RecordedScore(b) < RecordedScore(a) => ret.by.winner = b.variant
    /\ (RecordedScore(a) = RecordedScore(b) /\ apply_union_heuristics(a, b) = "Less")
         => ret.by.winner = a.variant
    /\ (RecordedScore(a) = RecordedScore(b) /\ apply_union_heuristics(a, b) = "Greater")
         => ret.by.winner = b.variant

\* The lenient coercion of an array into Vec<i64> has just returned
LenientVecReturn ==
  /\ ret.set
  /\ ret.by.op = "Leaf::deserialize"
  /\ ret.by.type = "Vec<i64>"
  /\ ret.by.value.t = "arr"

\* The items that coerce into i64, coerced, in their order
RECURSIVE CoercedItems(_)
CoercedItems(items) ==
  IF Len(items) = 0 THEN << >>
  ELSE (IF LeafResult("i64", "lenient", items[1]).ok
        THEN <<LeafResult("i64", "lenient", items[1]).v>> ELSE << >>)
         \o CoercedItems(Tail(items))

\* C17: the lenient coercion of an array into Vec<T> succeeds whenever at
\* least one element coerces; each element that fails is skipped and
\* recorded as ArrayItemParseError, and the result holds the coerced
\* elements in their original order.
C17_FailedItemsAreSkipped ==
  (LenientVecReturn /\ Len(CoercedItems(ret.by.value.items)) > 0) =>
    /\ ret.ok
    /\ ret.by.out = JArr(CoercedItems(ret.by.value.items))
    /\ \A i \in 1..Len(ret.by.value.items) :
         ~LeafResult("i64", "lenient", ret.by.value.items[i]).ok =>
           ArrayItemParseError(i - 1) \in Range(ret.ctx.transformations)

\* A lenient coercion into a leaf type has just succeeded
LenientLeafSuccess(T) ==
  /\ ret.set
  /\ ret.ok
  /\ ret.by.op = "Leaf::deserialize"
  /\ ret.by.type = T

RecordedKind(kind) == HasKind(Gained(ret.by.ctx, ret.ctx), kind)

\* C18: a lenient coercion that applies a conversion for which a
\* transformation is defined records it in the coercion context: FloatToInt
\* when an integer comes from a float, SingleToArray when a non-array is
\* wrapped into a Vec or a 1-element array is unwrapped, JsonToString when
\* an object or an array is stringified.
C18_ConversionsAreRecorded ==
  /\ (LenientLeafSuccess("i64") /\ ret.by.value.t = "flt") => RecordedKind("FloatToInt")
  /\ (LenientLeafSuccess("i64") /\ ret.by.value.t = "arr") => RecordedKind("SingleToArray")
  /\ (LenientLeafSuccess("Vec<i64>") /\ ret.by.value.t # "arr") => RecordedKind("SingleToArray")
  /\ (LenientLeafSuccess("String") /\ ret.by.value.t \in {"obj", "arr"})
       => RecordedKind("JsonToString")

\* The lenient coercion of an object into a map has just returned
LenientMapReturn ==
  /\ ret.set
  /\ ret.by.op = "Leaf::deserialize"
  /\ ret.by.type \in MapTypes
  /\ ret.by.value.t = "obj"

\* The key and the value of a member of the object both coerce
EntryCoerces(K, member) ==
  /\ LeafResult(K, "lenient", JStr(member.s)).ok
  /\ LeafResult("i64", "lenient", member.items[1]).ok

SameDescent(c, d) ==
  /\ c.depth = d.depth
  /\ c.max_depth = d.max_depth
  /\ c.visited_for_strict = d.visited_for_strict
  /\ c.visited_for_lenient = d.visited_for_lenient
  /\ c.scope = d.scope

\* The activation is a struct coercion that has descended into its object
Descended(f) ==
  \/ f.op = "Struct::try_deserialize" /\ f.phase = "fields"
  \/ f.op = "Struct::deserialize" /\ f.phase \in {"try_strict_match", "try_lenient_match"}

\* The context of a descent is one level deeper, with the pair marked in
\* the set of the mode and the other set and the scope trail as they were
NestedOf(f) ==
  /\ f.nested.depth = f.entered.depth + 1
  /\ f.nested.scope = f.entered.scope
  /\ IF f.op = "Struct::try_deserialize"
     THEN /\ f.nested.visited_for_strict
               = f.entered.visited_for_strict \cup {<<f.type, f.value>>}
          /\ f.nested.visited_for_lenient = f.entered.visited_for_lenient
     ELSE /\ f.nested.visited_for_lenient
               = f.entered.visited_for_lenient \cup {<<f.type, f.value>>}
          /\ f.nested.visited_for_strict = f.entered.visited_for_strict

\* Marking a pair for one mode changes the check of the other mode no more
\* than the descent by one level does
ModesAreSeparate(c, T, v) ==
  /\ check_can_enter_lenient(with_visited_strict(c, T, v), T, v)
       = check_can_enter_lenient([c EXCEPT !.depth = @ + 1], T, v)
  /\ check_can_enter_strict(with_visited_lenient(c, T, v), T, v)
       = check_can_enter_strict([c EXCEPT !.depth = @ + 1], T, v)
  /\ SameDescent(enter_scope(c, "field"), [c EXCEPT !.scope = Append(@, "field")])

\* C20: a descent returns a new context and leaves the context of the
\* caller, in depth, visited sets and scope trail, as it was, whether the
\* nested coercion succeeds or fails; a pair marked visited for strict mode
\* never makes the lenient check fail, nor the reverse.
C20_ContextsAreImmutable ==
  /\ \A i \in 1..Len(frames) :
       /\ SameDescent(frames[i].ctx, frames[i].entered)
       /\ Descended(frames[i]) => NestedOf(frames[i])
       /\ ModesAreSeparate(frames[i].entered, frames[i].type, frames[i].value)
  /\ ret.set => SameDescent(ret.ctx, ret.by.entered)

\* A nested struct coercion has failed below a caller that had descended
C20_Witness ==
  /\ ret.set
  /\ ~ret.ok
  /\ ret.by.op \in {"Struct::try_deserialize", "Struct::deserialize"}
  /\ ret.by.entered.depth >= 1
  /\ \E i \in 1..Len(frames) : Descended(frames[i])

\* The candidate score as the sum source base + transformation penalties
\* + floor((1 - confidence) * 100)
StatedScore(fv) ==
  source_base_score(fv.source) + SumOver(Transformation_penalty, fv.transformations)
    + ((fv.confidence[2] - fv.confidence[1]) * 100) \div fv.confidence[2]

\* C21: adding a transformation t to a FlexValue multiplies its confidence
\* by 0.95 (19/20) and leaves the candidate score, which is source base +
\* sum of penalties + floor((1 - confidence) * 100), at least as large as
\* the score before plus the penalty of t.
C21_AddedTransformationCosts ==
  [][pc = "value" =>
       LET before == driver.ranked[1]
           after == driver'.ranked[1]
           t == after.transformations[Len(after.transformations)] IN
       /\ after.transformations = Append(before.transformations, t)
       /\ after.confidence = <<before.confidence[1] * 19, before.confidence[2] * 20>>
       /\ score_candidate(after) = StatedScore(after)
       /\ score_candidate(after) >= score_candidate(before) + Transformation_penalty(t)]_vars

\* A repaired value has been given a second transformation, a failed
\* assert, and its score has grown by more than the penalty of it
C21_Witness ==
  /\ pc = "value"
  /\ driver.ranked[1].source.kind = "Fixed"
  /\ Len(driver.ranked[1].transformations) = 2
  /\ driver.ranked[1].transformations[2] = ConstraintChecked(FALSE, TRUE)
  /\ driver.ranked[1].confidence = <<9 * 19 * 19, 10 * 20 * 20>>
  /\ score_candidate(driver.ranked[1])
       > score_candidate([driver.ranked[1] EXCEPT
                            !.transformations = SubSeq(@, 1, 1),
                            !.confidence = <<9 * 19, 10 * 20>>]) + 100

\* The entry point has returned Ok with the winning candidate
ReturnedOk == pc = "returned" /\ driver.result.kind = "Ok"

\* C22: every addition of a transformation to a FlexValue raises
\* max_transformation_depth to the nesting depth at which the transformation
\* occurred, so the winning candidate carries the deepest level at which one
\* of its transformations was recorded, and its recursive score scales the
\* sum of the penalties by 10 to that power.
C22_DepthIsTracked ==
  ReturnedOk =>
    /\ Winner.max_transformation_depth = ret.ctx.deepest
    /\ score_candidate_recursive(Winner, TRUE)
         = source_base_score(Winner.source)
             + SumOver(Transformation_penalty, Winner.transformations)
                 * Pow(DEPTH_SCORE_MULTIPLIER, ret.ctx.deepest)
             + ((Winner.confidence[2] - Winner.confidence[1]) * 100) \div Winner.confidence[2]

\* What the stage owes one extracted candidate: its cleaned text is parsed
\* strictly, and repaired only if that fails
OutcomeOf(candidate) ==
  LET cleaned == GarbageCleaner_clean(candidate.content)
      strict == from_str(cleaned) IN
  IF strict.ok THEN <<FlexValue_new(strict.v, candidate.source)>> ELSE JsonFixer_parse(cleaned)

RECURSIVE StageOutcome(_)
StageOutcome(extracted) ==
  IF Len(extracted) = 0 THEN << >>
  ELSE OutcomeOf(extracted[1]) \o StageOutcome(Tail(extracted))

\* parse_multi_stage went on to extract after the strategies
StageRan == parser.returned \in {"extract_clean_repair", "nothing_extracted"}

\* C23: the extract-clean-repair stage runs if and only if no strategy
\* produced a candidate; in it every extracted candidate goes through the
\* cleaner before it is parsed, and is repaired only after the strict parse
\* of its cleaned text has failed.
C23_ExtractCleanRepair ==
  parser.returned # "" =>
    /\ StageRan <=> \A i \in 1..Len(parser.produced) : parser.produced[i] = << >>
    /\ StageRan => parser.invoked = strategies
    /\ StageRan =>
         parser.all_candidates = StageOutcome(extract_candidates(parser.preprocessed))
    /\ StageRan =>
         \A i \in 1..Len(parser.all_candidates) :
           parser.all_candidates[i].source.kind = "Fixed" =>
             \E j \in 1..Len(extract_candidates(parser.preprocessed)) :
               LET e == extract_candidates(parser.preprocessed)[j] IN
               /\ ~from_str(GarbageCleaner_clean(e.content)).ok
               /\ \E h \in 1..Len(JsonFixer_parse(GarbageCleaner_clean(e.content))) :
                    JsonFixer_parse(GarbageCleaner_clean(e.content))[h]
                      = parser.all_candidates[i]

\* The stage has run on  a [1,] a : no strategy produced a candidate, the
\* fragment [1,] was extracted, failed the strict parse and was repaired
C23_Witness ==
  /\ parser.returned = "extract_clean_repair"
  /\ input = <<LA, SP, LB, D1, CM, RB, SP, LA>>
  /\ HasSource(parser.all_candidates, "Fixed")
  /\ \A i \in 1..Len(parser.produced) : parser.produced[i] = << >>

\* C24: whenever no single repair and no listed combination has yielded
\* parseable JSON, JsonFixerStrategy runs the final pass, the chain of every
\* repair in canonical order, whatever the attempt cap is and however many
\* attempts have been consumed.
C24_FinalPassRuns ==
  [][pc = "final" /\ Len(parser.candidates) = 0 =>
       parser' = FinalChain(input, parser)]_vars

\* The fragment begins with { or [ and the close matching that opener is its
\* last character
BalancedFragment(t) ==
  /\ Len(t) > 0 /\ t[1] \in {LB, LC}
  /\ find_matching_close(t, 0, t[1], CloserOf(t[1])) = Len(t) - 1

DeepestOf(text) ==
  LET d == NestingDepths(Trim(text)) IN Max(d.max_brace_depth, d.max_bracket_depth)

\* C25: when the maximum brace or bracket depth of the input, string
\* contents ignored, exceeds 50, the deep-nesting extraction replaces the
\* input by a balanced fragment (it begins with { or [ and ends with the
\* close matching that opener), and 100 openers + J + 100 closers yields
\* exactly J; when neither depth exceeds 50 the input is left unchanged.
C25_DeepNestingExtraction ==
  pc = "extracted" =>
    IF DeepestOf(input) > MAX_NESTING_DEPTH
    THEN /\ BalancedFragment(parser.preprocessed)
         /\ \A open \in {LB, LC}, inner \in InnerTexts :
              input = Wrapped(open, DeepWrap, inner) => parser.preprocessed = inner
    ELSE parser.preprocessed = input

\* The edit distance by its recurrence: the least number of insertions,
\* deletions and substitutions of one character that turn a into b
RECURSIVE EditDistance(_, _)
EditDistance(a, b) ==
  IF Len(a) = 0 THEN Len(b)
  ELSE IF Len(b) = 0 THEN Len(a)
  ELSE IF a[1] = b[1] THEN EditDistance(Tail(a), Tail(b))
  ELSE 1 + Min(EditDistance(Tail(a), Tail(b)),
               Min(EditDistance(Tail(a), b), EditDistance(a, Tail(b))))

\* The input and the match strings as the last strategies see them
NormalizedInput == to_lowercase(strip_punctuation(Trim(input)))

NormalizedEntries ==
  MapEntries(MapEntries(CandidateEntries(driver), strip_punctuation), to_lowercase)

EarlierStrategyMatches ==
  \/ try_exact_match(Trim(input), CandidateEntries(driver)).some
  \/ try_unaccented_match(Trim(input), CandidateEntries(driver)).some
  \/ try_exact_match(strip_punctuation(Trim(input)),
                     MapEntries(CandidateEntries(driver), strip_punctuation)).some
  \/ try_exact_match(NormalizedInput, NormalizedEntries).some
  \/ try_substring_match(NormalizedInput, NormalizedEntries).some

Closest(i) ==
  \A h \in 1..Len(NormalizedEntries) :
    EditDistance(NormalizedInput, NormalizedEntries[i].s)
      <= EditDistance(NormalizedInput, NormalizedEntries[h].s)

C27_ParseIsPerCall ==
  pc = "shared" =>
    /\ parser["shared"] = StateMachineParser_new
    /\ \A t \in Threads :
         frames[t].at = "parsed" =>
           frames[t].p = parse_multi_stage(ParserStart(frames[t].input))

\* One thread has returned the candidates of  [1]a , which the state machine
\* found, while the other is half way through  [1,]  in its own copy
C27_Witness ==
  /\ pc = "shared"
  /\ frames["t1"].at = "parsed"
  /\ frames["t1"].input = <<LB, D1, RB, LA>>
  /\ frames["t1"].p.invoked[Len(frames["t1"].p.invoked)] = "state_machine"
  /\ Len(frames["t1"].p.all_candidates) > 0
  /\ frames["t2"].at = "running"
  /\ frames["t2"].input = <<LB, D1, CM, RB>>
  /\ parser["t2"].position = 2
  /\ parser["t1"].position = 4

\* How often a transformation occurs in a list
TimesIn(transformations, t) ==
  Cardinality({i \in 1..Len(transformations) : transformations[i] = t})

WithoutIndex(xs, i) == SubSeq(xs, 1, i - 1) \o SubSeq(xs, i + 1, Len(xs))

\* The transformations the winning variant recorded during its own attempt:
\* what its context holds beyond the context the union was called with
WinnersOwn ==
  LET winning_match ==
        ret.by.matches[CHOOSE i \in 1..Len(ret.by.matches) :
                         ret.by.matches[i].variant = ret.by.winner] IN
  Gained(ret.by.ctx, [transformations |-> winning_match.transformations])

\* C28: a union coercion adds to the caller's context only the UnionMatch
\* entry and the transformations the winning variant recorded during its own
\* attempt: every transformation that was on the context before the call is
\* still there exactly as often afterwards, and nothing else is added.
C28_UnionFrame ==
  (ret.set /\ ret.ok /\ ret.by.op = "UnionDeserializer::deserialize") =>
    LET before == ret.by.ctx.transformations
        gained == Gained(ret.by.ctx, ret.ctx) IN
    /\ SubSeq(ret.ctx.transformations, 1, Len(before)) = before
    /\ \A t \in Range(before) :
         TimesIn(ret.ctx.transformations, t) = TimesIn(before, t) + TimesIn(WinnersOwn, t)
    /\ \E i \in 1..Len(gained) :
         /\ KindOf(gained[i]) = "UnionMatch"
         /\ WithoutIndex(gained, i) = WinnersOwn

\* A lenient object-to-struct matching has just succeeded
LenientMatchReturn ==
  ret.set /\ ret.ok /\ ret.by.op = "Struct::deserialize" /\ ret.by.phase = "try_lenient_match"

SameKeyTwice(filled) ==
  \E i, j \in 1..Len(filled) :
    i # j /\ filled[i].field # filled[j].field /\ filled[i].key = filled[j].key

\* C29 as stated: in lenient object-to-struct matching each object key is
\* consumed by at most one declared field, two different fields of the
\* struct are never both filled from the same key of the object.
C29_AsStated == LenientMatchReturn => ~SameKeyTwice(ret.by.filled)

\* C29: in lenient object-to-struct matching every declared field is filled
\* at most once, from a key of the object, and the fields are matched
\* independently of one another: a key that one field has consumed can fill
\* another field whose name matches it too.  A key is reported as ExtraKey
\* exactly if no field found it, so a consumed key is never reported however
\* many fields it fills.
C29_FieldsMatchIndependently ==
  LenientMatchReturn =>
    LET filled == ret.by.filled
        keys == {ret.by.value.items[i].s : i \in 1..Len(ret.by.value.items)} IN
    /\ \A i, j \in 1..Len(filled) : i # j => filled[i].field # filled[j].field
    /\ \A i \in 1..Len(filled) :
         /\ filled[i].key \in keys
         /\ ExtraKey(filled[i].key) \notin Range(ret.by.transformations)
         /\ MapGet(ret.by.out.items, filled[i].field)
              = Llm_deserialize("i64", [value |-> MapGet(ret.by.value.items, filled[i].key)]).v
              \/ Fields(ret.by.type)[CHOOSE h \in 1..Len(Fields(ret.by.type)) :
                   Fields(ret.by.type)[h].name = filled[i].field].type_name # "i64"
    /\ \A key \in keys :
         TimesIn(ret.by.transformations, ExtraKey(key))
           = IF \E h \in 1..Len(Fields(ret.by.type)) :
                  find_in_object(Fields(ret.by.type)[h].name, ret.by.value.items).some
                  /\ find_in_object(Fields(ret.by.type)[h].name, ret.by.value.items).key = key
             THEN 0 ELSE 1

\* struct Both { a: i64, A: i64 } from {"a":1}: both fields are filled from
\* the key a, and the key is not reported as extra
C29_Witness ==
  /\ LenientMatchReturn
  /\ ret.by.type = "Both"
  /\ ret.by.value = from_str(<<LC, QT, LA, QT, CL, D1, RC>>).v
  /\ ret.by.filled = <<[field |-> <<LA>>, key |-> <<LA>>], [field |-> <<UA>>, key |-> <<LA>>]>>
  /\ ret.by.out = JObj(<<JKv(<<UA>>, JNum(<<D1>>)), JKv(<<LA>>, JNum(<<D1>>))>>)
  /\ ~HasKind(ret.by.transformations, "ExtraKey")

\* C30: for every range (start, end) kept by the balanced-brace heuristic
\* the text handed on for parsing is exactly the characters of the input
\* from the matched opener through its matching closer, and taking that
\* text never fails, for inputs with multi-byte characters as well as for
\* pure-ASCII inputs.
C30_SubstringIsTheRange ==
  pc \in {"heuristic_parsed", "heuristic_extracted"} =>
    /\ ~driver.panicked
    /\ Len(driver.substrings) = Len(KeptBoundaries(input))
    /\ \A i \in 1..Len(driver.substrings) :
         LET b == KeptBoundaries(input)[i] IN
         /\ driver.substrings[i] = SubSeq(input, b.start + 1, b.end)
         /\ driver.substrings[i][1] \in {LB, LC}
         /\ driver.substrings[i][Len(driver.substrings[i])] = CloserOf(driver.substrings[i][1])


====
